---- MODULE Spec2Model ----
(***************************************************************************)
(* A model of the win-color parsing core: the color expression parser      *)
(* (parse_color, parse_color_mapping), the color token parser (parse,      *)
(* parse_hex, the rgb()/rgba() helpers), the gradient direction resolver   *)
(* (parse_coordinates) and the HSL transform (darken, lighten).            *)
(*                                                                         *)
(* Text is a sequence of one-character strings, so that trimming,          *)
(* splitting, prefix tests and slicing are computed as the code computes   *)
(* them.  A color channel is an exact rational <<n, d>> in lowest terms    *)
(* with d > 0: the f32 rounding of a quotient is a function of the         *)
(* quotient, so two channels computed from the same quotient are equal in  *)
(* the code exactly when they are equal here.                              *)
(***************************************************************************)
EXTENDS Integers, Sequences, FiniteSets, TLC

VARIABLES
    expr,       \* the text handed to parse_color / parse (a char sequence)
    mapping,    \* the ColorMapping handed to parse_color_mapping
    is_active,  \* Option<bool>: "None", "Some_true", "Some_false"
    dwm,        \* what DwmGetColorizationColor answers: -1 (Err) or 0xRRGGBB
    call,       \* "none" before the call, then the entry point that ran
    result      \* the value the entry point returned (or a panic)

vars == <<expr, mapping, is_active, dwm, call, result>>

(***************************************************************************)
(* Bounds of the model.                                                    *)
(***************************************************************************)
MaxColors == 3
MaxHexLen == 8

(***************************************************************************)
(* Text helpers: the std::str operations the code calls.                   *)
(***************************************************************************)
Drop(s, n) == SubSeq(s, n + 1, Len(s))

Take(s, n) == SubSeq(s, 1, n)

starts_with(s, p) == Len(s) >= Len(p) /\ Take(s, Len(p)) = p

ends_with(s, p) == Len(s) >= Len(p) /\ Drop(s, Len(s) - Len(p)) = p

\* Option<T>: Some(v) or None.
None == [tag |-> "None"]

Some(v) == [tag |-> "Some", val |-> v]

IsSome(o) == o.tag = "Some"

strip_prefix(s, p) == IF starts_with(s, p) THEN Some(Drop(s, Len(p))) ELSE None

strip_suffix(s, p) ==
    IF ends_with(s, p) THEN Some(Take(s, Len(s) - Len(p))) ELSE None

is_whitespace(c) == c \in {" ", "\t", "\n"}

RECURSIVE trim_start(_)
trim_start(s) ==
    IF s # <<>> /\ is_whitespace(Head(s)) THEN trim_start(Tail(s)) ELSE s

RECURSIVE trim_end(_)
trim_end(s) ==
    IF s # <<>> /\ is_whitespace(s[Len(s)]) THEN trim_end(Take(s, Len(s) - 1)) ELSE s

trim(s) == trim_end(trim_start(s))

\* 1-based index of the first c in s, 0 when there is none.
IndexOf(s, c) ==
    IF \E i \in 1..Len(s) : s[i] = c
    THEN CHOOSE i \in 1..Len(s) : s[i] = c /\ \A j \in 1..(i - 1) : s[j] # c
    ELSE 0

\* str::split(c): the pieces between the occurrences of c (always >= 1 piece).
RECURSIVE split(_, _)
split(s, c) ==
    LET i == IndexOf(s, c)
    IN  IF i = 0 THEN <<s>> ELSE <<Take(s, i - 1)>> \o split(Drop(s, i), c)

\* str::rfind(pat): the 0-based offset of the last occurrence, -1 for None.
rfind(s, pat) ==
    LET hits == {i \in 0..(Len(s) - Len(pat)) : SubSeq(s, i + 1, i + Len(pat)) = pat}
    IN  IF hits = {} THEN -1 ELSE CHOOSE i \in hits : \A j \in hits : j <= i

is_ascii_char(c) == c # "é"

is_ascii(s) == \A i \in 1..Len(s) : is_ascii_char(s[i])

RECURSIVE Join(_, _)
Join(parts, sep) ==
    IF parts = <<>> THEN <<>>
    ELSE IF Len(parts) = 1 THEN parts[1]
    ELSE parts[1] \o sep \o Join(Tail(parts), sep)

(***************************************************************************)
(* Exact rationals <<n, d>>, d > 0, in lowest terms.                       *)
(***************************************************************************)
Abs(n) == IF n < 0 THEN -n ELSE n

RECURSIVE GCD(_, _)
GCD(a, b) == IF b = 0 THEN a ELSE GCD(b, a % b)

\* The value n / d in lowest terms.  A zero denominator is an infinity,
\* <<1, 0>> or <<-1, 0>>, and 0 / 0 is NaN, <<0, 0>>, as f32 division gives.
Rat(n, d) ==
    LET s == IF d < 0 THEN -1 ELSE 1
        g == IF n = 0 /\ d = 0 THEN 1 ELSE GCD(Abs(n), Abs(d))
    IN  <<(s * n) \div g, (s * d) \div g>>

FInf == <<1, 0>>
FNaN == <<0, 0>>

RZero == <<0, 1>>
ROne == <<1, 1>>
RHalf == <<1, 2>>

RAdd(a, b) == Rat(a[1] * b[2] + b[1] * a[2], a[2] * b[2])
RNeg(a) == [a EXCEPT ![1] = -a[1]]
RMul(a, b) == Rat(a[1] * b[1], a[2] * b[2])
RDiv(a, b) == Rat(a[1] * b[2], a[2] * b[1])
\* Comparisons with NaN are false; two infinities compare by sign.
RLt(a, b) ==
    IF a = FNaN \/ b = FNaN THEN FALSE
    ELSE IF a[2] = 0 /\ b[2] = 0 THEN a[1] < b[1]
    ELSE a[1] * b[2] < b[1] * a[2]
RLe(a, b) == a # FNaN /\ b # FNaN /\ ~RLt(b, a)
\* f32::max and f32::min return the other operand when one is NaN.
RInt(n) == <<n, 1>>

\* f32::clamp(0.0, 1.0): min when self < min, max when self > max, else
\* self, so that NaN stays NaN.
clamp01(a) == IF RLt(a, RZero) THEN RZero ELSE IF RLt(ROne, a) THEN ROne ELSE a

(***************************************************************************)
(* f32 arithmetic, bit for bit: a finite f32 is <<s, m, e>>, the value     *)
(* s * m * 2^e with sign s in {-1, 1} and a 24-bit significand m           *)
(* (2^23 <= m < 2^24), and zero is <<1, 0, 0>>.  Each operation rounds its *)
(* exact result to the nearest f32, ties to even, as IEEE 754 does.  The   *)
(* values of the model stay clear of overflow, subnormals and -0.0.        *)
(***************************************************************************)
RECURSIVE Pow2(_)
Pow2(k) == IF k = 0 THEN 1 ELSE 2 * Pow2(k - 1)

\* The number of bits of q > 0.
RECURSIVE BitLen(_)
BitLen(q) == IF q = 0 THEN 0 ELSE 1 + BitLen(q \div 2)

FZero == <<1, 0, 0>>

\* q shortened by k bits, to nearest, ties to even.
RoundBits(q, k) ==
    IF (q % Pow2(k)) * 2 > Pow2(k) \/ ((q % Pow2(k)) * 2 = Pow2(k) /\ (q \div Pow2(k)) % 2 = 1)
    THEN q \div Pow2(k) + 1
    ELSE q \div Pow2(k)

\* The f32 nearest to s * q * 2^e, where q has n bits.  When the exact value
\* had more bits than q holds, q's lowest bit stands for all of them (it is
\* set if any was), and q is at least two bits longer than a significand.
FNormBits(s, q, e, n) ==
    IF q = 0 THEN FZero
    ELSE IF n <= 24 THEN <<s, q * Pow2(24 - n), e - (24 - n)>>
    ELSE IF RoundBits(q, n - 24) = 16777216 THEN <<s, 8388608, e + (n - 24) + 1>>
    ELSE <<s, RoundBits(q, n - 24), e + (n - 24)>>

FNorm(s, q, e) == FNormBits(s, q, e, BitLen(q))

\* An integer as f32 (|n| < 2^30).
FOfInt(n) == FNorm(IF n < 0 THEN -1 ELSE 1, Abs(n), 0)

FAbs(a) == <<1, a[2], a[3]>>

\* m shifted right by k bits, the lowest bit of the result set if a bit
\* that was shifted out was.
ShiftRightSticky(m, k) ==
    IF k >= 30 THEN (IF m = 0 THEN 0 ELSE 1)
    ELSE IF m % Pow2(k) = 0 THEN m \div Pow2(k)
    ELSE 2 * ((m \div Pow2(k)) \div 2) + 1

\* a + b for e_a >= e_b: both significands get five more bits, b's is
\* aligned to a's exponent, and the signed sum is rounded.
FAddAligned(a, b) ==
    FNorm(IF a[1] * (a[2] * 32) + b[1] * ShiftRightSticky(b[2] * 32, a[3] - b[3]) < 0
          THEN -1 ELSE 1,
          Abs(a[1] * (a[2] * 32) + b[1] * ShiftRightSticky(b[2] * 32, a[3] - b[3])),
          a[3] - 5)

FAdd(a, b) ==
    IF a[2] = 0 THEN b
    ELSE IF b[2] = 0 THEN a
    ELSE IF a[3] >= b[3] THEN FAddAligned(a, b)
    ELSE FAddAligned(b, a)

FSub(a, b) == FAdd(a, IF b[2] = 0 THEN b ELSE <<-b[1], b[2], b[3]>>)

\* The sign of a rounded difference is the sign of the exact one.
FLt(a, b) == FSub(a, b)[2] # 0 /\ FSub(a, b)[1] < 0

\* The 48-bit product of two significands from 12-bit halves, as the pair
\* of its high and low 24 bits.
MulParts(x, y) ==
    LET hh == (x \div 4096) * (y \div 4096)
        cross == (x \div 4096) * (y % 4096) + (x % 4096) * (y \div 4096)
        low == (x % 4096) * (y % 4096) + (cross % 4096) * 4096
    IN  <<hh + cross \div 4096 + low \div 16777216, low % 16777216>>

\* The product p[1] * 2^24 + p[2] cut to 30 bits, the lowest one sticky.
MulJam(p) == 2 * (p[1] * 32 + p[2] \div 524288) + (IF p[2] % 524288 = 0 THEN 0 ELSE 1)

FMul(a, b) ==
    IF a[2] = 0 \/ b[2] = 0 THEN FZero
    ELSE FNorm(a[1] * b[1], MulJam(MulParts(a[2], b[2])), a[3] + b[3] + 18)

\* Long division: n more bits of r / d after the bits q, then a sticky bit.
RECURSIVE DivBits(_, _, _, _)
DivBits(r, d, q, n) ==
    IF n = 0 THEN 2 * q + (IF r = 0 THEN 0 ELSE 1)
    ELSE IF r >= d THEN DivBits(2 * (r - d), d, 2 * q + 1, n - 1)
    ELSE DivBits(2 * r, d, 2 * q, n - 1)

\* a / b; a division by zero gives an infinity, and 0 / 0 a NaN.
FDiv(a, b) ==
    IF b[2] = 0 THEN (IF a[2] = 0 THEN FNaN ELSE <<a[1] * b[1], 0>>)
    ELSE IF a[2] = 0 THEN FZero
    ELSE FNorm(a[1] * b[1], DivBits(a[2], b[2], 0, 28), a[3] - b[3] - 28)

\* x % 2.0: the remainder has the sign of x and is exact.
FMod2(x) ==
    IF x[3] >= 1 THEN FZero
    ELSE IF x[3] <= -25 THEN x
    ELSE FNorm(x[1], x[2] - 2 * ((x[2] \div Pow2(-x[3])) \div 2) * Pow2(-x[3]), x[3])

\* A channel is written as an exact rational <<n, d>> (|n|, d < 2^24, d > 0),
\* which names the f32 nearest to it, or as the f32 <<s, m, e>> itself.
ToF32(x) == IF Len(x) = 3 THEN x ELSE FDiv(FOfInt(x[1]), FOfInt(x[2]))

(***************************************************************************)
(* Values.                                                                 *)
(***************************************************************************)
D2D1_COLOR_F(r, g, b, a) == [r |-> r, g |-> g, b |-> b, a |-> a]

\* D2D1_COLOR_F::default(): every field 0.0.
D2D1_COLOR_F_default == D2D1_COLOR_F(RZero, RZero, RZero, RZero)

Ok(v) == [tag |-> "Ok", val |-> v]

\* Error::new(kind, text)
Err(kind, text) == [tag |-> "Err", kind |-> kind, text |-> text]

IsOk(r) == r.tag = "Ok"

(***************************************************************************)
(* Hex tokens: parse_hex and u8::from_str_radix(_, 16).                    *)
(***************************************************************************)
HexDigits == <<"0", "1", "2", "3", "4", "5", "6", "7", "8", "9",
               "a", "b", "c", "d", "e", "f">>

UpperHexDigits == <<"0", "1", "2", "3", "4", "5", "6", "7", "8", "9",
                    "A", "B", "C", "D", "E", "F">>

\* char::to_digit(16): the digit's value, -1 when c is no hex digit.
to_digit16(c) ==
    IF \E i \in 1..16 : HexDigits[i] = c
    THEN (CHOOSE i \in 1..16 : HexDigits[i] = c) - 1
    ELSE IF \E i \in 1..16 : UpperHexDigits[i] = c
    THEN (CHOOSE i \in 1..16 : UpperHexDigits[i] = c) - 1
    ELSE -1

is_hex_digit(c) == to_digit16(c) >= 0

\* The value of a run of hex digits (all of them digits), most significant first.
RECURSIVE HexValue(_)
HexValue(ds) ==
    IF ds = <<>> THEN 0
    ELSE HexValue(Take(ds, Len(ds) - 1)) * 16 + to_digit16(ds[Len(ds)])

\* u8::from_str_radix(src, 16): the value, or -1 for Err.  The standard
\* library rejects the empty text and a lone sign, strips one leading '+'
\* (an unsigned type takes no '-'), and then wants digits only and a value
\* that fits 8 bits.
u8_from_str_radix16(src) ==
    IF src = <<>> THEN -1
    ELSE IF src = <<"+">> \/ src = <<"-">> THEN -1
    ELSE LET digits == IF Head(src) = "+" THEN Tail(src) ELSE src
         IN  IF \E i \in 1..Len(digits) : ~is_hex_digit(digits[i]) THEN -1
             ELSE IF HexValue(digits) > 255 THEN -1
             ELSE HexValue(digits)

\* A mutant of parse_single_digit: the nibble is shifted but not duplicated.
parse_single_digit_shift_only(digit) ==
    LET n == u8_from_str_radix16(digit)
    IN  IF n < 0 THEN Err("InvalidHex", digit)
        ELSE Ok(Rat((n * 16) % 256, 255))

\* parse_single_digit: ((n << 4) | n) as f32 / 255.0; n << 4 is a u8 shift and
\* a one-character digit has n < 16, so | adds n's low nibble.
parse_single_digit(digit) ==
    LET n == u8_from_str_radix16(digit)
        shifted == (n * 16) % 256
        ored == shifted + (n % 16)    \* shifted's low nibble is 0
    IN  IF n < 0 THEN Err("InvalidHex", digit) ELSE Ok(Rat(ored, 255))

\* One two-character channel of the 6/8 digit form; the error carries s.
hex_byte(s, from, to) ==
    LET n == u8_from_str_radix16(SubSeq(s, from + 1, to))
    IN  IF n < 0 THEN Err("InvalidHex", s) ELSE Ok(Rat(n, 255))

\* The first Err among the results rs (where `?` returns), or None.
FirstErr(rs) ==
    IF \E i \in 1..Len(rs) : ~IsOk(rs[i])
    THEN rs[CHOOSE i \in 1..Len(rs) : ~IsOk(rs[i]) /\ \A j \in 1..(i - 1) : IsOk(rs[j])]
    ELSE None

parse_hex(s) ==
    LET n == Len(s)
    IN  IF ~is_ascii(s) THEN Err("InvalidHex", s)
        ELSE IF n = 3 \/ n = 4 THEN
            LET rs == <<parse_single_digit(SubSeq(s, 1, 1)),
                        parse_single_digit(SubSeq(s, 2, 2)),
                        parse_single_digit(SubSeq(s, 3, 3))>>
                      \o (IF n = 4 THEN <<parse_single_digit(SubSeq(s, 4, 4))>>
                          ELSE <<Ok(ROne)>>)
            IN  IF FirstErr(rs).tag = "Err" THEN FirstErr(rs)
                ELSE Ok(D2D1_COLOR_F(rs[1].val, rs[2].val, rs[3].val, rs[4].val))
        ELSE IF n = 6 \/ n = 8 THEN
            LET rs == <<hex_byte(s, 0, 2), hex_byte(s, 2, 4), hex_byte(s, 4, 6)>>
                      \o (IF n = 8 THEN <<hex_byte(s, 6, 8)>> ELSE <<Ok(ROne)>>)
            IN  IF FirstErr(rs).tag = "Err" THEN FirstErr(rs)
                ELSE Ok(D2D1_COLOR_F(rs[1].val, rs[2].val, rs[3].val, rs[4].val))
        ELSE Err("InvalidHex", s)

(***************************************************************************)
(* Numbers in text: str::parse::<f32>() for decimal numerals (an optional  *)
(* sign, digits, an optional fraction) and for the spellings inf, infinity *)
(* and nan, which the library matches without regard to case.  The inputs  *)
(* of the model are lowercase and hold no exponent.                        *)
(***************************************************************************)
DecDigits == <<"0", "1", "2", "3", "4", "5", "6", "7", "8", "9">>

is_dec_digit(c) == \E i \in 1..10 : DecDigits[i] = c

dec_digit(c) == (CHOOSE i \in 1..10 : DecDigits[i] = c) - 1

RECURSIVE DecValue(_)
DecValue(ds) ==
    IF ds = <<>> THEN 0
    ELSE DecValue(Take(ds, Len(ds) - 1)) * 10 + dec_digit(ds[Len(ds)])

RECURSIVE Pow10(_)
Pow10(k) == IF k = 0 THEN 1 ELSE 10 * Pow10(k - 1)

\* The f32 nearest to a whole number of more digits than the model's integers
\* hold.  The number, taken four digits at a time, is divided by 4096 until
\* nothing is left, which gives its digits to the base 4096; the first 25
\* bits of these and a bit that stands for all the rest are rounded.  Past
\* f32::MAX the number parses as infinity.
digit_groups(ds) ==
    [j \in 1..((Len(ds) + 3) \div 4) |->
        DecValue(SubSeq(ds,
            IF Len(ds) - 4 * ((Len(ds) + 3) \div 4 - j) - 3 < 1 THEN 1
            ELSE Len(ds) - 4 * ((Len(ds) + 3) \div 4 - j) - 3,
            Len(ds) - 4 * ((Len(ds) + 3) \div 4 - j)))]

\* The quotient of q by 4096, t being 10000 * carry + q[i].
RECURSIVE divided_by_4096(_, _, _)
divided_by_4096(q, i, t) ==
    IF i = Len(q) THEN <<t \div 4096>>
    ELSE <<t \div 4096>> \o divided_by_4096(q, i + 1, (t % 4096) * 10000 + q[i + 1])

\* The remainder of q by 4096.
RECURSIVE rest_by_4096(_, _, _)
rest_by_4096(q, i, t) ==
    IF i = Len(q) THEN t % 4096
    ELSE rest_by_4096(q, i + 1, (t % 4096) * 10000 + q[i + 1])

\* The digits of q to the base 4096, the first one not zero.
RECURSIVE limbs_of(_)
limbs_of(q) ==
    IF \A i \in 1..Len(q) : q[i] = 0 THEN <<>>
    ELSE limbs_of(divided_by_4096(q, 1, q[1])) \o <<rest_by_4096(q, 1, q[1])>>

\* The limbs l rounded to 24 bits; the first limb has BitLen(l[1]) bits.
rounded_limbs(l) ==
    IF Len(l) = 0 THEN FZero
    ELSE IF Len(l) = 1 THEN FNorm(1, l[1], 0)
    ELSE IF Len(l) = 2 THEN FNorm(1, l[1] * 4096 + l[2], 0)
    ELSE FNorm(1,
               2 * ((l[1] * 4096 + l[2]) * Pow2(13 - BitLen(l[1]))
                    + l[3] \div Pow2(BitLen(l[1]) - 1))
               + (IF l[3] % Pow2(BitLen(l[1]) - 1) # 0 \/ \E i \in 4..Len(l) : l[i] # 0
                  THEN 1 ELSE 0),
               12 * (Len(l) - 3) + BitLen(l[1]) - 2)

infinite_past_max(x) == IF x[2] # 0 /\ x[3] > 104 THEN FInf ELSE x

f32_of_digits(ds) == infinite_past_max(rounded_limbs(limbs_of(digit_groups(ds))))

parse_f32(s) ==
    LET signed == s # <<>> /\ Head(s) \in {"+", "-"}
        body == IF signed THEN Tail(s) ELSE s
        S_inf == <<"i", "n", "f">>
        S_infinity == <<"i", "n", "f", "i", "n", "i", "t", "y">>
        S_nan == <<"n", "a", "n">>
        dot == IndexOf(body, ".")
        ip == IF dot = 0 THEN body ELSE Take(body, dot - 1)
        fp == IF dot = 0 THEN <<>> ELSE Drop(body, dot)
        ok == /\ \A i \in 1..Len(ip) : is_dec_digit(ip[i])
              /\ \A i \in 1..Len(fp) : is_dec_digit(fp[i])
              /\ (ip # <<>> \/ fp # <<>>)
        mag == IF body = S_inf \/ body = S_infinity THEN FInf
               ELSE IF Len(ip) > 9 /\ fp = <<>> THEN f32_of_digits(ip)
               ELSE Rat(DecValue(ip) * Pow10(Len(fp)) + DecValue(fp), Pow10(Len(fp)))
    IN  IF body = S_nan THEN Some(FNaN)
        ELSE IF ~ok /\ body # S_inf /\ body # S_infinity THEN None
        ELSE IF signed /\ Head(s) = "-" THEN Some(RNeg(mag))
        ELSE Some(mag)

\* Option<(f32, bool)>: the value and whether it was written as a percentage.
parse_percent_or_float(s) ==
    LET st == strip_suffix(s, <<"%">>)
        p == IF IsSome(st) THEN parse_f32(st.val) ELSE None
        q == parse_f32(s)
    IN  IF IsSome(p) THEN Some([v |-> RDiv(p.val, RInt(100)), pct |-> TRUE])
        ELSE IF IsSome(q) THEN Some([v |-> q.val, pct |-> FALSE])
        ELSE None

parse_percent_or_255(s) ==
    LET st == strip_suffix(s, <<"%">>)
        p == IF IsSome(st) THEN parse_f32(st.val) ELSE None
        q == parse_f32(s)
    IN  IF IsSome(p) THEN Some([v |-> RDiv(p.val, RInt(100)), pct |-> TRUE])
        ELSE IF IsSome(q) THEN Some([v |-> RDiv(q.val, RInt(255)), pct |-> FALSE])
        ELSE None

\* strip_string: the first of the prefixes that matches is removed, then one
\* trailing suffix character if there is one.
RECURSIVE strip_first_prefix(_, _)
strip_first_prefix(input, prefixes) ==
    IF prefixes = <<>> THEN input
    ELSE IF starts_with(input, Head(prefixes)) THEN Drop(input, Len(Head(prefixes)))
    ELSE strip_first_prefix(input, Tail(prefixes))

strip_string(input, prefixes, suffix) ==
    LET r == strip_first_prefix(input, prefixes)
    IN  IF ends_with(r, <<suffix>>) THEN Take(r, Len(r) - 1) ELSE r

(***************************************************************************)
(* The HSL transform (utils.rs), in f32 arithmetic.  The Hsla fields and   *)
(* the channels of the color it returns are f32 values <<s, m, e>>; alpha  *)
(* is passed through as it came.                                           *)
(***************************************************************************)

\* f32::max and f32::min.
FMax(a, b) == IF FLt(a, b) THEN b ELSE a
FMin(a, b) == IF FLt(b, a) THEN b ELSE a

\* f32::clamp(0.0, 1.0)
FClamp01(a) ==
    IF FLt(a, FZero) THEN FZero ELSE IF FLt(FOfInt(1), a) THEN FOfInt(1) ELSE a

\* The hue in degrees, for delta # 0: the sector by the channel that is the
\* maximum, times 60, and 360 more when negative.
hue_of(r, g, b, max, delta) ==
    LET h == IF max = r THEN FDiv(FSub(g, b), delta)
             ELSE IF max = g THEN FAdd(FDiv(FSub(b, r), delta), FOfInt(2))
             ELSE FAdd(FDiv(FSub(r, g), delta), FOfInt(4))
    IN  IF FLt(FMul(h, FOfInt(60)), FZero) THEN FAdd(FMul(h, FOfInt(60)), FOfInt(360))
        ELSE FMul(h, FOfInt(60))

\* 1.0 - (2.0 * l - 1.0).abs(): zero at l = 0 and l = 1, and also for an l so
\* small (at most 2^-26) that 2.0 * l - 1.0 rounds to -1.0.
chroma_factor(l) == FSub(FOfInt(1), FAbs(FSub(FMul(FOfInt(2), l), FOfInt(1))))

\* The saturation in percent, for delta # 0.  Only l == 0.0 and l == 1.0 are
\* kept from the division: when the divisor is zero for another l, the
\* quotient of the positive delta is +infinity.
saturation_of(l, delta) ==
    IF l = FZero \/ l = FOfInt(1) THEN FZero
    ELSE IF chroma_factor(l) = FZero THEN FInf
    ELSE FMul(FDiv(delta, chroma_factor(l)), FOfInt(100))

\* d2d1_to_hsla on the f32 channels, with their maximum and minimum.
hsla_of(r, g, b, a, max, min) ==
    IF FSub(max, min) # FZero
    THEN [h |-> hue_of(r, g, b, max, FSub(max, min)),
          s |-> saturation_of(FDiv(FAdd(max, min), FOfInt(2)), FSub(max, min)),
          l |-> FMul(FDiv(FAdd(max, min), FOfInt(2)), FOfInt(100)),
          a |-> a]
    ELSE [h |-> FZero, s |-> FZero,
          l |-> FMul(FDiv(FAdd(max, min), FOfInt(2)), FOfInt(100)), a |-> a]

d2d1_to_hsla(color) ==
    LET r == ToF32(color.r)
        g == ToF32(color.g)
        b == ToF32(color.b)
    IN  hsla_of(r, g, b, color.a, FMax(FMax(r, g), b), FMin(FMin(r, g), b))

\* The channels by the sector of the hue h, each with m added and clamped.
rgb_of_sector(h, c, x, m, a) ==
    LET rgb == IF FLt(h, FOfInt(60)) THEN <<c, x, FZero>>
               ELSE IF FLt(h, FOfInt(120)) THEN <<x, c, FZero>>
               ELSE IF FLt(h, FOfInt(180)) THEN <<FZero, c, x>>
               ELSE IF FLt(h, FOfInt(240)) THEN <<FZero, x, c>>
               ELSE IF FLt(h, FOfInt(300)) THEN <<x, FZero, c>>
               ELSE <<c, FZero, x>>
    IN  D2D1_COLOR_F(FClamp01(FAdd(rgb[1], m)), FClamp01(FAdd(rgb[2], m)),
                     FClamp01(FAdd(rgb[3], m)), a)

\* hsla_to_d2d1 on the hue h, the fractions s and l and the chroma c.
d2d1_of(h, s, l, c, a) ==
    rgb_of_sector(h, c,
        FMul(c, FSub(FOfInt(1),
                     FAbs(FSub(FMod2(FDiv(h, FOfInt(60))), FOfInt(1))))),
        FSub(l, FDiv(c, FOfInt(2))), a)

\* hsla_to_d2d1 for an infinite s.  The chroma c is 0.0 * inf = NaN or inf,
\* and m = l - c / 2.0 is NaN or -inf: with c NaN every channel is NaN; with
\* c infinite, c + m and x + m are NaN (x is inf or inf * 0.0) and 0.0 + m is
\* -inf, which the clamp makes 0.0.  f32::clamp keeps a NaN.
d2d1_of_infinite_s(h, factor, a) ==
    IF factor = FZero THEN D2D1_COLOR_F(FNaN, FNaN, FNaN, a)
    ELSE IF FLt(h, FOfInt(120)) THEN D2D1_COLOR_F(FNaN, FNaN, FZero, a)
    ELSE IF FLt(h, FOfInt(240)) THEN D2D1_COLOR_F(FZero, FNaN, FNaN, a)
    ELSE D2D1_COLOR_F(FNaN, FZero, FNaN, a)

hsla_to_d2d1(hsla) ==
    LET l == FDiv(hsla.l, FOfInt(100))
    IN  IF hsla.s = FInf THEN d2d1_of_infinite_s(hsla.h, chroma_factor(l), hsla.a)
        ELSE d2d1_of(hsla.h, FDiv(hsla.s, FOfInt(100)), l,
                     FMul(chroma_factor(l), FDiv(hsla.s, FOfInt(100))), hsla.a)

\* A mutant of with_l: the color becomes opaque as well.
with_l_opaque(hsla, l) == [hsla EXCEPT !.l = l, !.a = ROne]

\* hsla with its lightness replaced.
with_l(hsla, l) == [hsla EXCEPT !.l = l]

\* hsla.l -= hsla.l * percentage / 100.0, for a finite percentage.
darken(color, percentage) ==
    LET hsla == d2d1_to_hsla(color)
    IN  hsla_to_d2d1(with_l(hsla,
            FSub(hsla.l, FDiv(FMul(hsla.l, ToF32(percentage)), FOfInt(100)))))

\* hsla.l += hsla.l * percentage / 100.0, for a finite percentage.
lighten(color, percentage) ==
    LET hsla == d2d1_to_hsla(color)
    IN  hsla_to_d2d1(with_l(hsla,
            FAdd(hsla.l, FDiv(FMul(hsla.l, ToF32(percentage)), FOfInt(100)))))

(***************************************************************************)
(* Text literals of the code.                                              *)
(***************************************************************************)
\* The string literals of parse_color and parse (parser/mod.rs).
STR ==
    [ gradient_open |-> <<"g", "r", "a", "d", "i", "e", "n", "t", "(">>,
      accent |-> <<"a", "c", "c", "e", "n", "t">>,
      hash |-> <<"#">>,
      rgb_open |-> <<"r", "g", "b", "(">>,
      rgba_open |-> <<"r", "g", "b", "a", "(">>,
      darken_open |-> <<"d", "a", "r", "k", "e", "n", "(">>,
      lighten_open |-> <<"l", "i", "g", "h", "t", "e", "n", "(">>,
      darken |-> <<"d", "a", "r", "k", "e", "n">>,
      lighten |-> <<"l", "i", "g", "h", "t", "e", "n">>,
      accent_not_found |-> <<"a", "c", "c", "e", "n", "t", " ", "c", "o", "l", "o", "r", " ", "n", "o", "t", " ", "f", "o", "u", "n", "d">>,
      red |-> <<"r", "e", "d">>,
      blue |-> <<"b", "l", "u", "e">>,
      white |-> <<"w", "h", "i", "t", "e">>,
      default_direction |-> <<"t", "o", "_", "r", "i", "g", "h", "t">> ]

(***************************************************************************)
(* The color token parser: parse (parser/mod.rs).                          *)
(***************************************************************************)
\* NAMED_COLORS.get(s): a static table from lowercase names to colors.  Three
\* of its entries stand for the table.
NAMED_COLORS_get(s) ==
    IF s = STR.red THEN Some(D2D1_COLOR_F(ROne, RZero, RZero, ROne))
    ELSE IF s = STR.blue THEN Some(D2D1_COLOR_F(RZero, RZero, ROne, ROne))
    ELSE IF s = STR.white THEN Some(D2D1_COLOR_F(ROne, ROne, ROne, ROne))
    ELSE None

\* DARKEN_LIGHTEN_REGEX.captures(s): the whole match, the modifier, the
\* color argument and the percentage, for a text of the shape
\* modifier "(" color "," percentage [ "%" ] ")", the color argument running
\* to the last comma so that a nested call is one argument.
darken_lighten_captures(s) ==
    LET name == IF starts_with(s, STR.darken_open) THEN STR.darken ELSE STR.lighten
        inner == Take(Drop(s, Len(name) + 1), Len(s) - Len(name) - 2)
        k == rfind(inner, <<",">>)
        color == trim(Take(inner, k))
        tail == trim(Drop(inner, k + 1))
        pct == IF ends_with(tail, <<"%">>) THEN Take(tail, Len(tail) - 1) ELSE tail
    IN  IF /\ starts_with(s, STR.darken_open) \/ starts_with(s, STR.lighten_open)
           /\ ends_with(s, <<")">>)
           /\ k >= 0
           /\ color # <<>>
        THEN Some(<<s, name, color, pct>>)
        ELSE None

\* A mutant of parse_accent: the accent color is returned as it is whatever
\* is_active says.
parse_accent_never_desaturated(act) ==
    IF dwm < 0 THEN Err("InvalidAccent", STR.accent_not_found)
    ELSE Ok(D2D1_COLOR_F(Rat((dwm \div 65536) % 256, 255), Rat((dwm \div 256) % 256, 255),
                         Rat(dwm % 256, 255), ROne))

\* The accent branch of parse: dwm is -1 when DwmGetColorizationColor fails,
\* else the colorization value 0xRRGGBB.
parse_accent(act) ==
    LET r == Rat((dwm \div 65536) % 256, 255)
        g == Rat((dwm \div 256) % 256, 255)
        b == Rat(dwm % 256, 255)
        avg == RDiv(RAdd(RAdd(r, g), b), RInt(3))
        dim(c) == RAdd(RDiv(avg, <<3, 2>>), RDiv(c, RInt(10)))
    IN  IF dwm < 0 THEN Err("InvalidAccent", STR.accent_not_found)
        ELSE IF act = "Some_true" THEN Ok(D2D1_COLOR_F(r, g, b, ROne))
        ELSE Ok(D2D1_COLOR_F(dim(r), dim(g), dim(b), ROne))

\* A mutant of rgb_components: the formats of r, g and b need not agree.
rgb_components_any_format(s, r, g, b, a) ==
    IF IsSome(r) /\ IsSome(g) /\ IsSome(b) /\ IsSome(a)
    THEN Ok(D2D1_COLOR_F(clamp01(r.val.v), clamp01(g.val.v),
                         clamp01(b.val.v), clamp01(a.val.v)))
    ELSE Err("InvalidRgb", s)

\* The color of parsed rgb()/rgba() components: all must have parsed and
\* r, g, b share a format (percent or not); each value is clamped.
rgb_components(s, r, g, b, a) ==
    IF /\ IsSome(r) /\ IsSome(g) /\ IsSome(b) /\ IsSome(a)
       /\ r.val.pct = g.val.pct /\ g.val.pct = b.val.pct
    THEN Ok(D2D1_COLOR_F(clamp01(r.val.v), clamp01(g.val.v),
                         clamp01(b.val.v), clamp01(a.val.v)))
    ELSE Err("InvalidRgb", s)

\* The match on params.len(): three or four components, else InvalidRgb.
rgb_params(s, params) ==
    IF Len(params) # 3 /\ Len(params) # 4 THEN Err("InvalidRgb", s)
    ELSE rgb_components(s,
             parse_percent_or_255(params[1]),
             parse_percent_or_255(params[2]),
             parse_percent_or_255(params[3]),
             IF Len(params) = 4 THEN parse_percent_or_float(params[4])
             ELSE Some([v |-> ROne, pct |-> TRUE]))

\* rgba.split(',').map(str::trim)
trim_all(raw) == [i \in 1..Len(raw) |-> trim(raw[i])]

\* The rgb()/rgba() branch of parse.
parse_rgb(s) ==
    rgb_params(s, trim_all(split(strip_string(s, <<STR.rgb_open, STR.rgba_open>>, ")"), ",")))

\* The error of the darken()/lighten() branch, by the modifier s starts with.
darken_lighten_error(s) ==
    IF starts_with(s, STR.darken_open) THEN Err("InvalidDarken", s)
    ELSE Err("InvalidLighten", s)

\* caps[3].parse::<f32>().unwrap_or(10.0)
percentage_or_10(p) == IF IsSome(p) THEN p.val ELSE RInt(10)

\* The match on the modifier name, applied to the parsed inner color (whose
\* error `?` returns).
darken_or_lighten(dark_or_lighten, color, percentage) ==
    IF ~IsOk(color) THEN color
    ELSE IF dark_or_lighten = STR.darken THEN Ok(darken(color.val, percentage))
    ELSE IF dark_or_lighten = STR.lighten THEN Ok(lighten(color.val, percentage))
    ELSE color

RECURSIVE parse(_, _)
RECURSIVE parse_darken_lighten(_, _, _)

\* The darken()/lighten() branch of parse, on the captures of
\* DARKEN_LIGHTEN_REGEX.
parse_darken_lighten(s, caps, act) ==
    IF ~IsSome(caps) THEN darken_lighten_error(s)
    ELSE IF Len(caps.val) # 4 THEN darken_lighten_error(s)
    ELSE darken_or_lighten(caps.val[2], parse(caps.val[3], act),
                           percentage_or_10(parse_f32(caps.val[4])))

parse(s, act) ==
    IF s = STR.accent THEN parse_accent(act)
    ELSE IF IsSome(NAMED_COLORS_get(s)) THEN Ok(NAMED_COLORS_get(s).val)
    ELSE IF IsSome(strip_prefix(s, STR.hash)) THEN parse_hex(strip_prefix(s, STR.hash).val)
    ELSE IF starts_with(s, STR.rgb_open) \/ starts_with(s, STR.rgba_open) THEN parse_rgb(s)
    ELSE IF starts_with(s, STR.darken_open) \/ starts_with(s, STR.lighten_open)
    THEN parse_darken_lighten(s, darken_lighten_captures(s), act)
    ELSE Ok(D2D1_COLOR_F_default)

(***************************************************************************)
(* The gradient direction resolver (gradient.rs).                          *)
(***************************************************************************)
\* The string literals of parse_coordinates and parse_angle (gradient.rs).
DIR ==
    [ to_right |-> <<"t", "o", " ", "r", "i", "g", "h", "t">>,
      to_left |-> <<"t", "o", " ", "l", "e", "f", "t">>,
      to_top |-> <<"t", "o", " ", "t", "o", "p">>,
      to_bottom |-> <<"t", "o", " ", "b", "o", "t", "t", "o", "m">>,
      to_top_right |-> <<"t", "o", " ", "t", "o", "p", " ", "r", "i", "g", "h", "t">>,
      to_top_left |-> <<"t", "o", " ", "t", "o", "p", " ", "l", "e", "f", "t">>,
      to_bottom_right |-> <<"t", "o", " ", "b", "o", "t", "t", "o", "m", " ", "r", "i", "g", "h", "t">>,
      to_bottom_left |-> <<"t", "o", " ", "b", "o", "t", "t", "o", "m", " ", "l", "e", "f", "t">>,
      deg |-> <<"d", "e", "g">>,
      grad |-> <<"g", "r", "a", "d">>,
      rad |-> <<"r", "a", "d">>,
      turn |-> <<"t", "u", "r", "n">> ]

\* A mutant of GradientCoordinates: the two points change places.
GradientCoordinates_reversed(start, end) == [start |-> end, end |-> start]

GradientCoordinates(start, end) == [start |-> start, end |-> end]

\* A coordinate is written as an exact rational where the f32 is one with a
\* denominator up to 2^30 (0, 1/2 and 1 are), and as the f32 itself where it
\* is not.
coordinate_of(x) ==
    IF Len(x) = 2 THEN x
    ELSE IF x[2] = 0 THEN RZero
    ELSE IF x[3] <= 0 /\ x[3] >= -30 THEN Rat(x[1] * x[2], Pow2(-x[3]))
    ELSE x

\* Line::plug_in_x
plug_in_x(line, x) == FAdd(FMul(line.m, x), line.b)

\* calculate_point: the match arms 0.0..=1.0, 1.0.. and _ in turn.  The two
\* divisions are by a slope that is not zero.
calculate_point(line, x) ==
    IF ~FLt(plug_in_x(line, x), FZero) /\ ~FLt(FOfInt(1), plug_in_x(line, x))
    THEN <<coordinate_of(x), coordinate_of(plug_in_x(line, x))>>
    ELSE IF FLt(FOfInt(1), plug_in_x(line, x))
    THEN <<coordinate_of(FDiv(FSub(FOfInt(1), line.b), line.m)), ROne>>
    ELSE <<coordinate_of(FDiv(FSub(FZero, line.b), line.m)), RZero>>

\* An infinity or a NaN, which the arithmetic of parse_angle hands on.
not_finite(v) == Len(v) = 2 /\ v[2] = 0

\* s without the suffix, parsed as f32: strip_suffix(..).and_then(parse).
number_before(s, suffix) ==
    IF IsSome(strip_suffix(s, suffix)) THEN parse_f32(strip_suffix(s, suffix).val)
    ELSE None

\* The f32 of a parsed number; an infinity or a NaN stays what it is.
as_f32(v) == IF not_finite(v) THEN v ELSE ToF32(v)

\* t * n / d in f32, from left to right.
scaled(v, n, d) == IF not_finite(v) THEN v ELSE FDiv(FMul(ToF32(v), n), d)

\* The or_else chain of parse_angle on what each unit gave.
first_angle(deg, grad, rad, turn, bare) ==
    IF IsSome(deg) THEN Some(as_f32(deg.val))
    ELSE IF IsSome(grad) THEN Some(scaled(grad.val, FOfInt(360), FOfInt(400)))
    ELSE IF IsSome(rad) THEN Some(scaled(rad.val, <<1, 15019745, -18>>, FOfInt(1)))
    ELSE IF IsSome(turn) THEN Some(scaled(turn.val, FOfInt(360), FOfInt(1)))
    ELSE IF IsSome(bare) THEN Some(as_f32(bare.val))
    ELSE None

\* The angle in degrees; f32::to_degrees multiplies by 57.29578 (the f32
\* nearest to 180/pi).
parse_angle(s) ==
    first_angle(number_before(s, DIR.deg), number_before(s, DIR.grad),
                number_before(s, DIR.rad), number_before(s, DIR.turn), parse_f32(s))

\* r * 2^e % 360 for r < 360.
RECURSIVE times_pow2_mod_360(_, _)
times_pow2_mod_360(r, e) ==
    IF e <= 20 THEN (r * Pow2(e)) % 360
    ELSE times_pow2_mod_360((r * 1048576) % 360, e - 20)

\* angle.abs() % 360.0, which is exact: of a number with a fraction by its
\* significand, of a whole number by the remainders of its factors.
abs_mod_360(angle) ==
    IF FLt(FAbs(angle), FOfInt(360)) THEN FAbs(angle)
    ELSE IF angle[3] >= 0 THEN FOfInt(times_pow2_mod_360(angle[2] % 360, angle[3]))
    ELSE FNorm(1, angle[2] % (360 * Pow2(-angle[3])), angle[3])

\* f32::signum: 1.0 for a positive number and +0.0, -1.0 for a negative one.
signum(angle) == IF angle[1] < 0 THEN FOfInt(-1) ELSE FOfInt(1)

\* rad.sin() and rad.cos(): the f32 nearest to the sine and to the cosine of
\* rad, for the values of rad that the angles of the model give.
sin_cos(rad) ==
    CASE rad = <<1, 0, 0>> -> <<<<1, 0, 0>>, <<1, 8388608, -23>>>>
      [] rad = <<-1, 8784530, -24>> -> <<<<-1, 8388608, -24>>, <<1, 14529495, -24>>>>
      [] rad = <<-1, 13176795, -24>> -> <<<<-1, 11863283, -24>>, <<1, 11863283, -24>>>>
      [] rad = <<-1, 8784530, -23>> -> <<<<-1, 14529496, -24>>, <<1, 16777215, -25>>>>
      [] rad = <<-1, 13030386, -23>> -> <<<<-1, 16774661, -24>>, <<1, 9369677, -29>>>>
      [] rad = <<-1, 13323204, -23>> -> <<<<-1, 16774661, -24>>, <<-1, 9369724, -29>>>>
      [] rad = <<-1, 9882596, -22>> -> <<<<-1, 11863283, -24>>, <<-1, 11863283, -24>>>>
      [] rad = <<-1, 13176795, -22>> -> <<<<1, 12303662, -47>>, <<-1, 8388608, -23>>>>
      [] rad = <<-1, 15372928, -22>> -> <<<<1, 8388611, -24>>, <<-1, 14529493, -24>>>>
      [] rad = <<-1, 16470993, -22>> -> <<<<1, 11863282, -24>>, <<-1, 11863284, -24>>>>
      [] rad = <<-1, 11529695, -21>> -> <<<<1, 11863285, -24>>, <<1, 11863281, -24>>>>
      [] rad = <<-1, 13176795, -21>> -> <<<<-1, 12303662, -46>>, <<1, 8388608, -23>>>>
      [] rad = <<1, 13176795, -24>> -> <<<<1, 11863283, -24>>, <<1, 11863283, -24>>>>
      [] rad = <<1, 13176795, -22>> -> <<<<-1, 12303662, -47>>, <<-1, 8388608, -23>>>>
      [] rad = <<1, 8784530, -24>> -> <<<<1, 8388608, -24>>, <<1, 14529495, -24>>>>
      [] rad = <<-1, 10980663, -22>> -> <<<<-1, 16777210, -25>>, <<-1, 14529497, -24>>>>
      [] rad = <<-1, 9370165, -2>> -> <<<<-1, 16264717, -27>>, <<1, 16653574, -24>>>>
      [] rad = <<-1, 9370177, -2>> -> <<<<-1, 10797087, -29>>, <<-1, 16773823, -24>>>>
      [] rad = <<-1, 8388608, -23>> -> <<<<-1, 14117540, -24>>, <<1, 9064768, -24>>>>
      [] rad = <<-1, 11170108, -6>> -> <<<<1, 16485248, -24>>, <<1, 12465366, -26>>>>
      [] rad = <<-1, 11170308, -6>> -> <<<<-1, 16534684, -24>>, <<-1, 11369564, -26>>>>
      [] rad = <<-1, 16084955, -8>> -> <<<<-1, 10294830, -32>>, <<1, 16777168, -24>>>>

\* The slope m of the line: angle.signum() * f32::MAX at 90 and 270 degrees,
\* else rad.sin() / rad.cos() for rad = -angle * PI / 180.0, which is NaN
\* when the product -angle * PI is past f32::MAX (the sine of an infinity).
slope_of(angle, t, minus_angle_pi) ==
    IF t = FOfInt(90) \/ t = FOfInt(270) THEN FMul(signum(angle), <<1, 16777215, 104>>)
    ELSE IF minus_angle_pi[3] > 104 THEN FNaN
    ELSE FDiv(sin_cos(FDiv(minus_angle_pi, FOfInt(180)))[1],
              sin_cos(FDiv(minus_angle_pi, FOfInt(180)))[2])

\* A mutant of line_of: the line goes through (0.5, 1.5).
line_of_through_one_and_a_half(m) ==
    [m |-> m, b |-> FSub(ToF32(<<3, 2>>), FMul(m, ToF32(RHalf)))]

\* Line { m, b } with b = -m * 0.5 + 0.5, for a slope that is a number.
line_of(m) == [m |-> m, b |-> FSub(ToF32(RHalf), FMul(m, ToF32(RHalf)))]

\* (x_s, x_e) by the sector of angle.abs() % 360.0.
samples_of(t) ==
    IF ~FLt(t, FOfInt(90)) /\ FLt(t, FOfInt(270)) THEN <<FOfInt(1), FZero>>
    ELSE <<FZero, FOfInt(1)>>

\* The two points on the line of slope m.  With a NaN for m, b and every y
\* are NaN, calculate_point takes its last arm and -b / m is NaN.
points_of(m, xs) ==
    IF m = FNaN THEN GradientCoordinates(<<FNaN, RZero>>, <<FNaN, RZero>>)
    ELSE GradientCoordinates(calculate_point(line_of(m), xs[1]),
                             calculate_point(line_of(m), xs[2]))

\* The Some(angle) arm of parse_coordinates.  The remainder of an infinity
\* or a NaN is NaN, which is in no sector, and so is its sine.
coordinates_of_angle(angle) ==
    IF not_finite(angle) THEN points_of(FNaN, <<FZero, FOfInt(1)>>)
    ELSE points_of(slope_of(angle, abs_mod_360(angle),
                            FMul(angle, <<-1, 13176795, -22>>)),
                   samples_of(abs_mod_360(angle)))

\* A mutant of parse_coordinates: a string that is no angle is "to right".
parse_coordinates_to_right_by_default(coordinates) ==
    IF IsSome(parse_angle(coordinates))
    THEN Ok(coordinates_of_angle(parse_angle(coordinates).val))
    ELSE Ok(GradientCoordinates(<<RZero, RHalf>>, <<ROne, RHalf>>))

\* The match of parse_coordinates on the parsed angle.
match_angle(angle, coordinates) ==
    IF IsSome(angle)
    THEN Ok(coordinates_of_angle(angle.val))
    ELSE IF coordinates = DIR.to_right
         THEN Ok(GradientCoordinates(<<RZero, RHalf>>, <<ROne, RHalf>>))
    ELSE IF coordinates = DIR.to_left
         THEN Ok(GradientCoordinates(<<ROne, RHalf>>, <<RZero, RHalf>>))
    ELSE IF coordinates = DIR.to_top
         THEN Ok(GradientCoordinates(<<RHalf, ROne>>, <<RHalf, RZero>>))
    ELSE IF coordinates = DIR.to_bottom
         THEN Ok(GradientCoordinates(<<RHalf, RZero>>, <<RHalf, ROne>>))
    ELSE IF coordinates = DIR.to_top_right
         THEN Ok(GradientCoordinates(<<RZero, ROne>>, <<ROne, RZero>>))
    ELSE IF coordinates = DIR.to_top_left
         THEN Ok(GradientCoordinates(<<ROne, ROne>>, <<RZero, RZero>>))
    ELSE IF coordinates = DIR.to_bottom_right
         THEN Ok(GradientCoordinates(<<RZero, RZero>>, <<ROne, ROne>>))
    ELSE IF coordinates = DIR.to_bottom_left
         THEN Ok(GradientCoordinates(<<ROne, RZero>>, <<RZero, ROne>>))
    ELSE Err("InvalidGradientCoordinates", coordinates)

parse_coordinates(coordinates) == match_angle(parse_angle(coordinates), coordinates)

\* A mutant of is_valid_angle: a unit is enough, with no number before it.
is_valid_angle_by_its_unit(direction) ==
    \E suffix \in {DIR.deg, DIR.grad, DIR.rad, DIR.turn} :
        IsSome(strip_suffix(direction, suffix))

is_valid_angle(direction) ==
    \E suffix \in {DIR.deg, DIR.grad, DIR.rad, DIR.turn} :
        LET st == strip_suffix(direction, suffix)
        IN  IsSome(st) /\ IsSome(parse_f32(st.val))

is_valid_direction(direction) ==
    \/ direction \in {DIR.to_right, DIR.to_left, DIR.to_top, DIR.to_bottom, DIR.to_top_right,
                      DIR.to_top_left, DIR.to_bottom_right, DIR.to_bottom_left}
    \/ is_valid_angle(direction)

(***************************************************************************)
(* The color expression parser: parse_color and parse_color_mapping        *)
(* (parser/mod.rs).                                                        *)
(***************************************************************************)
\* The length of the run of hex digits of s that starts at position i.
RECURSIVE hex_run(_, _)
hex_run(s, i) ==
    IF i <= Len(s) /\ is_hex_digit(s[i]) THEN 1 + hex_run(s, i + 1) ELSE 0

\* The position of the ')' that closes the call whose '(' was read before
\* position i, depth calls deep; 0 when the text ends first.
RECURSIVE closing_paren(_, _, _)
closing_paren(s, i, depth) ==
    IF i > Len(s) THEN 0
    ELSE IF s[i] = "(" THEN closing_paren(s, i + 1, depth + 1)
    ELSE IF s[i] = ")" THEN (IF depth = 0 THEN i ELSE closing_paren(s, i + 1, depth - 1))
    ELSE closing_paren(s, i + 1, depth)

\* The color-token grammar of COLOR_REGEX: the length of the color token of
\* s that starts at position i, 0 when none does.  A token is a hex run
\* ('#' and hex digits), a call rgb(...), rgba(...), darken(...) or
\* lighten(...) up to the parenthesis that closes it, the word accent, or a
\* name of the named color table.
color_token_len(s, i) ==
    LET rest == Drop(s, i - 1)
        calls == {STR.rgb_open, STR.rgba_open, STR.darken_open, STR.lighten_open}
        words == {STR.accent, STR.red, STR.blue, STR.white}
    IN  IF s[i] = "#" THEN (IF hex_run(s, i + 1) > 0 THEN 1 + hex_run(s, i + 1) ELSE 0)
        ELSE IF \E c \in calls : starts_with(rest, c)
        THEN LET c == CHOOSE c \in calls : starts_with(rest, c)
                 close == closing_paren(s, i + Len(c), 0)
             IN  IF close = 0 THEN 0 ELSE close - i + 1
        ELSE IF \E w \in words : starts_with(rest, w)
        THEN Len(CHOOSE w \in words : starts_with(rest, w))
        ELSE 0

\* COLOR_REGEX.captures_iter(s): the color tokens of s, left to right, none
\* overlapping another.
RECURSIVE color_matches_from(_, _)
color_matches_from(s, i) ==
    IF i > Len(s) THEN <<>>
    ELSE LET n == color_token_len(s, i)
         IN  IF n > 0 THEN <<SubSeq(s, i, i + n - 1)>> \o color_matches_from(s, i + n)
             ELSE color_matches_from(s, i + 1)

COLOR_REGEX_matches(s) == color_matches_from(s, 1)

Solid(color) == [tag |-> "Solid", color |-> color]

Gradient(gradient_stops, direction) ==
    [tag |-> "Gradient", gradient_stops |-> gradient_stops, direction |-> direction]

D2D1_GRADIENT_STOP(position, color) == [position |-> position, color |-> color]

\* A panic: the call does not return.
Panic(what) == [tag |-> "Panic", what |-> what]

\* f32 quotients and products that may be infinite or NaN: n / d with
\* 1.0 / 0.0 = inf and 0.0 * inf = NaN.
\* 1.0 / (n as f32) for a count n >= 0
f32_recip(n) == IF n = 0 THEN FInf ELSE Rat(1, n)

\* (i as f32) * step for an index i >= 0
f32_times_index(i, step) ==
    IF step = FInf THEN (IF i = 0 THEN FNaN ELSE FInf) ELSE RMul(RInt(i), step)

\* Result::ok() as filter_map sees it: the value of an Ok, nothing for an Err.
ok_value(c) == IF IsOk(c) THEN <<c.val>> ELSE <<>>

\* A mutant of parse_ok_values: collecting stops at the first token that
\* fails to parse.
RECURSIVE parse_ok_values_until_error(_, _)
parse_ok_values_until_error(tokens, act) ==
    IF tokens = <<>> THEN <<>>
    ELSE IF ok_value(parse(Head(tokens), act)) = <<>> THEN <<>>
    ELSE ok_value(parse(Head(tokens), act))
         \o parse_ok_values_until_error(Tail(tokens), act)

\* colors.iter().filter_map(|c| parse(c).ok()): the Ok values, in order.
RECURSIVE parse_ok_values(_, _)
parse_ok_values(tokens, act) ==
    IF tokens = <<>> THEN <<>>
    ELSE ok_value(parse(Head(tokens), act)) \o parse_ok_values(Tail(tokens), act)

\* The pieces of the text after the last color token: split on commas,
\* trimmed, the empty ones dropped.
RECURSIVE trimmed_non_empty(_)
trimmed_non_empty(pieces) ==
    IF pieces = <<>> THEN <<>>
    ELSE (IF trim(Head(pieces)) # <<>> THEN <<trim(Head(pieces))>> ELSE <<>>)
         \o trimmed_non_empty(Tail(pieces))

\* parse(..)? followed by Color::Solid(Solid { color, brush: None })
solid_or_error(color) == IF IsOk(color) THEN Solid(color.val) ELSE color

\* A mutant of parse_color_solid: a token that fails to parse gives the
\* default color instead of its error.
parse_color_solid_default_on_error(color_match, act) ==
    IF IsOk(parse(color_match, act)) THEN solid_or_error(parse(color_match, act))
    ELSE Solid(D2D1_COLOR_F_default)

\* The single-token path of parse_color: parse(color_matches[0])? and Solid.
parse_color_solid(color_match, act) == solid_or_error(parse(color_match, act))

\* s[last_match_end..].trim_start().split(',') with each piece trimmed and
\* the empty ones dropped, where last is the last color token.
remaining_input_arr(s, last) ==
    trimmed_non_empty(split(trim_start(Drop(s, rfind(s, last) + Len(last))), ","))

\* The first piece that is a valid direction, or the default direction text.
find_direction(arr) ==
    IF \E i \in 1..Len(arr) : is_valid_direction(arr[i])
    THEN arr[CHOOSE i \in 1..Len(arr) :
                 /\ is_valid_direction(arr[i])
                 /\ \A j \in 1..(i - 1) : ~is_valid_direction(arr[j])]
    ELSE STR.default_direction

\* step = 1.0 / (num_colors - 1) as f32 and the stops at i * step.  With no
\* color the usize subtraction 0 - 1 panics in a debug build (overflow
\* checks on) and wraps in a release build, where the stops are empty.
gradient_of_colors(colors, coordinates, build) ==
    IF Len(colors) = 0 /\ build = "debug"
    THEN Panic("attempt to subtract with overflow")
    ELSE IF ~IsOk(coordinates) THEN coordinates
    ELSE Gradient(
             [i \in 1..Len(colors) |->
                 D2D1_GRADIENT_STOP(
                     f32_times_index(i - 1, f32_recip(Len(colors) - 1)), colors[i])],
             coordinates.val)

\* parse_color on a text that passed the wrapper test, on the matches of
\* COLOR_REGEX.
parse_color_matches(s, color_matches, act, build) ==
    IF Len(color_matches) = 1 THEN parse_color_solid(color_matches[1], act)
    \* color_matches.last().unwrap() on an empty Vec
    ELSE IF color_matches = <<>> THEN Panic("unwrap on None")
    ELSE gradient_of_colors(
             parse_ok_values(color_matches, act),
             parse_coordinates(
                 find_direction(
                     remaining_input_arr(s, color_matches[Len(color_matches)]))),
             build)

\* The wrapper test is on the text as given, and a wrapped text is parsed
\* again after strip_string.  build is "debug" or "release" (see
\* gradient_of_colors).
RECURSIVE parse_color(_, _, _)
parse_color(s, act, build) ==
    IF starts_with(s, STR.gradient_open) /\ ends_with(s, <<")">>)
    THEN parse_color(strip_string(s, <<STR.gradient_open>>, ")"), act, build)
    ELSE parse_color_matches(s, COLOR_REGEX_matches(s), act, build)

\* One color of a mapping: a stop at position when it parses, else nothing.
mapping_stop(c, position) ==
    IF IsOk(c) THEN <<D2D1_GRADIENT_STOP(position, c.val)>> ELSE <<>>

\* The stops parse_color_mapping keeps: the colors that parse, each at the
\* position of its index i (0-based) among all the colors of the mapping.
RECURSIVE mapping_stops(_, _, _, _)
mapping_stops(colors, i, step, act) ==
    IF i >= Len(colors) THEN <<>>
    ELSE mapping_stop(parse(colors[i + 1], act), f32_times_index(i, step))
         \o mapping_stops(colors, i + 1, step, act)

\* The direction of a mapping: a text goes through parse_coordinates,
\* coordinates are taken as they are.
mapping_direction(direction) ==
    IF direction.tag = "Direction" THEN parse_coordinates(direction.val)
    ELSE Ok(direction.val)

\* The Gradient of the stops, or the error of the direction.
gradient_or_error(gradient_stops, direction) ==
    IF ~IsOk(direction) THEN direction
    ELSE Gradient(gradient_stops, direction.val)

parse_color_mapping(s, act) ==
    IF Len(s.colors) = 0 THEN Solid(D2D1_COLOR_F_default)
    ELSE IF Len(s.colors) = 1 THEN solid_or_error(parse(s.colors[1], act))
    ELSE gradient_or_error(
             mapping_stops(s.colors, 0, f32_recip(Len(s.colors) - 1), act),
             mapping_direction(s.direction))

(***************************************************************************)
(* The inputs of the model.                                                *)
(***************************************************************************)
IsActiveValues == {"None", "Some_true", "Some_false"}

\* DwmGetColorizationColor: a failure, or a colorization value (0x89B4FA).
DwmValues == {-1, 9024762}

\* The two ways the crate is compiled: with overflow checks and without.
Builds == {"debug", "release"}

\* Sequences of length 0..n over the set S.
SeqsUpTo(S, n) == UNION {[1..k -> S] : k \in 0..n}

\* Tokens the expressions are made of.
TOK ==
    [ tf00 |-> <<"#", "f", "0", "0">>,
      t0000ff |-> <<"#", "0", "0", "0", "0", "f", "f">>,
      t12345 |-> <<"#", "1", "2", "3", "4", "5">>,
      tbogus |-> <<"b", "o", "g", "u", "s">>,
      t90deg |-> <<"9", "0", "d", "e", "g">> ]

\* Color tokens of the expressions: two that parse to different colors, one
\* the grammar accepts and parse rejects (five hex digits), and accent, which
\* parses or not as the platform answers.
ExprTokens == {TOK.tf00, TOK.t0000ff, TOK.t12345, STR.accent}

\* What follows the last color token, with the direction of the mapping
\* that goes with it: nothing, a keyword, no direction, an angle after a
\* piece that is no direction.
ExprTails ==
    { [text |-> <<>>,
       direction |-> [tag |-> "Coordinates",
                      val |-> GradientCoordinates(<<RZero, RZero>>, <<ROne, ROne>>)]],
      [text |-> <<",", " ">> \o DIR.to_bottom,
       direction |-> [tag |-> "Direction", val |-> DIR.to_bottom]],
      [text |-> <<",", " ">> \o TOK.tbogus,
       direction |-> [tag |-> "Direction", val |-> TOK.tbogus]],
      [text |-> <<",", " ">> \o TOK.tbogus \o <<",">> \o TOK.t90deg,
       direction |-> [tag |-> "Direction", val |-> TOK.t90deg]] }

\* How the expression is written around its content.
ExprForms == {"plain", "wrapped", "space_wrapped", "wrapped_space"}

Wrapped(x) == STR.gradient_open \o x \o <<")">>

Render(form, colors, tail) ==
    LET content == Join(colors, <<",", " ">>) \o tail
    IN  CASE form = "plain" -> content
          [] form = "wrapped" -> Wrapped(content)
          [] form = "space_wrapped" -> <<" ">> \o Wrapped(content)
          [] form = "wrapped_space" -> Wrapped(content) \o <<" ">>

(***************************************************************************)
(* Spec: one call of parse_color or of parse_color_mapping on an input.    *)
(***************************************************************************)
Init ==
    /\ \E form \in ExprForms, colors \in SeqsUpTo(ExprTokens, MaxColors),
          tail \in ExprTails :
          /\ expr = Render(form, colors, tail.text)
          /\ mapping = [colors |-> colors, direction |-> tail.direction]
    /\ is_active \in IsActiveValues
    /\ dwm \in DwmValues
    /\ call = "none"
    /\ result = [tag |-> "None"]

ParseColor ==
    /\ call = "none"
    /\ call' = "parse_color"
    /\ \E build \in Builds : result' = parse_color(expr, is_active, build)
    /\ UNCHANGED <<expr, mapping, is_active, dwm>>

ParseColorMapping ==
    /\ call = "none"
    /\ call' = "parse_color_mapping"
    /\ result' = parse_color_mapping(mapping, is_active)
    /\ UNCHANGED <<expr, mapping, is_active, dwm>>

Next == ParseColor \/ ParseColorMapping

Spec == Init /\ [][Next]_vars

(***************************************************************************)
(* What the claims speak of, read off the state.                           *)
(***************************************************************************)
\* The color tokens of the expression.
TokensOfExpr == COLOR_REGEX_matches(expr)

TokenParses(token) == IsOk(parse(token, is_active))

\* The tokens of the expression that parse, and their colors, in order.
ParsingTokens == SelectSeq(TokensOfExpr, TokenParses)

ParsedColors == [i \in 1..Len(ParsingTokens) |-> parse(ParsingTokens[i], is_active).val]

StopColors(gradient_stops) == [i \in 1..Len(gradient_stops) |-> gradient_stops[i].color]

\* The expression is written with no whitespace before or after it.
NoOuterSpace == trim(expr) = expr

HasWrapper(s) == starts_with(s, STR.gradient_open) /\ ends_with(s, <<")">>)

RECURSIVE Unwrap(_)
Unwrap(s) == IF HasWrapper(s) THEN Unwrap(strip_string(s, <<STR.gradient_open>>, ")")) ELSE s

\* No comma-separated piece of the text after the last color token is a
\* direction (for an expression that holds a color token).
NoDirectionFollows ==
    LET s == Unwrap(expr)
        last == TokensOfExpr[Len(TokensOfExpr)]
        pieces == split(Drop(s, rfind(s, last) + Len(last)), ",")
    IN  \A i \in 1..Len(pieces) : ~is_valid_direction(trim(pieces[i]))

ToRight == GradientCoordinates(<<RZero, RHalf>>, <<ROne, RHalf>>)

(***************************************************************************)
(* C1: when an expression holds more than one color token and no valid     *)
(* direction follows the last one, parse_color returns a Gradient whose    *)
(* direction is "to right": start [0, 0.5], end [1, 0.5].  Stated here for *)
(* the expressions written without outer whitespace of which at least two  *)
(* tokens parse.  The code falls back to the text "to_right", which the    *)
(* resolver rejects.                                                       *)
(***************************************************************************)
C1_DefaultDirectionIsToRight ==
    (/\ call = "parse_color"
     /\ NoOuterSpace
     /\ Len(TokensOfExpr) > 1
     /\ Len(ParsingTokens) >= 2
     /\ NoDirectionFollows)
    => (result.tag = "Gradient" /\ result.direction = ToRight)

(***************************************************************************)
(* C2: an expression with no color token, or with more than one of which   *)
(* none parses, makes parse_color return the NoValidColors error.  The     *)
(* code unwraps the last match of an empty list, or subtracts 1 from a     *)
(* count of 0.                                                             *)
(***************************************************************************)
C2_NoValidColorsError ==
    (/\ call = "parse_color"
     /\ \/ TokensOfExpr = <<>>
        \/ Len(TokensOfExpr) > 1 /\ ParsingTokens = <<>>)
    => (result.tag = "Err" /\ result.kind = "NoValidColors")

(***************************************************************************)
(* C3: parse_color and parse_color_mapping never panic: every call returns *)
(* an Ok or an Err value.                                                  *)
(***************************************************************************)
C3_NeverPanics ==
    call \in {"parse_color", "parse_color_mapping"}
    => result.tag \in {"Solid", "Gradient", "Err"}

(***************************************************************************)
(* C4: every Gradient returned by parse_color or parse_color_mapping has   *)
(* at least 2 stops.                                                       *)
(***************************************************************************)
C4_GradientHasTwoStops ==
    (call \in {"parse_color", "parse_color_mapping"} /\ result.tag = "Gradient")
    => Len(result.gradient_stops) >= 2

(***************************************************************************)
(* C5: in every Gradient returned by parse_color or parse_color_mapping,   *)
(* with N stops, stop i (0-indexed) is at position i / (N - 1), whichever  *)
(* input colors were dropped.  Stated here for N >= 2.                     *)
(***************************************************************************)
C5_StopsAreUniform ==
    (/\ call \in {"parse_color", "parse_color_mapping"}
     /\ result.tag = "Gradient"
     /\ Len(result.gradient_stops) >= 2)
    => \A i \in 1..Len(result.gradient_stops) :
           result.gradient_stops[i].position
               = Rat(i - 1, Len(result.gradient_stops) - 1)

(***************************************************************************)
(* C6: when exactly one color token is found, parse_color returns Solid    *)
(* with that token's color, and the token parser's error when the token    *)
(* fails to parse.                                                         *)
(***************************************************************************)
C6_SingleTokenIsSolidOrItsError ==
    (call = "parse_color" /\ Len(TokensOfExpr) = 1)
    => LET r == parse(TokensOfExpr[1], is_active)
       IN  IF IsOk(r) THEN result = Solid(r.val) ELSE result = r

C6_Witness ==
    /\ call = "parse_color"
    /\ Len(TokensOfExpr) = 1
    /\ result.tag = "Err"
    /\ result.kind = "InvalidHex"

(***************************************************************************)
(* C7: when more than one color token is found and at least one parses, a  *)
(* token that fails to parse does not make parse_color fail: a Gradient    *)
(* holds exactly the colors of the tokens that parsed, in their order, and *)
(* the only error returned is the direction resolver's.                    *)
(***************************************************************************)
C7_FailedTokensAreDropped ==
    (/\ call = "parse_color"
     /\ Len(TokensOfExpr) > 1
     /\ Len(ParsingTokens) >= 1)
    => \/ /\ result.tag = "Gradient"
          /\ StopColors(result.gradient_stops) = ParsedColors
       \/ /\ result.tag = "Err"
          /\ result.kind = "InvalidGradientCoordinates"

C7_Witness ==
    /\ call = "parse_color"
    /\ Len(ParsingTokens) >= 2
    /\ Len(TokensOfExpr) > Len(ParsingTokens)
    /\ result.tag = "Gradient"
    /\ Len(result.gradient_stops) = Len(ParsingTokens)

(***************************************************************************)
(* C8: if the expression, trimmed of surrounding whitespace, has the form  *)
(* gradient(X), parse_color returns what it returns for X: whitespace      *)
(* around the wrapper does not change the result.  The code tests the      *)
(* untrimmed text for the wrapper.                                         *)
(***************************************************************************)
C8_WrapperIsTransparent ==
    (call = "parse_color" /\ HasWrapper(trim(expr)))
    => \E build \in Builds :
           result = parse_color(strip_string(trim(expr), <<STR.gradient_open>>, ")"),
                                is_active, build)

(***************************************************************************)
(* SpecHex: one call of the token parser on a token '#' body.              *)
(***************************************************************************)
\* The characters of the bodies: a hex digit, the sign from_str_radix takes,
\* an ASCII character that is no hex digit, a character outside ASCII.
HexAlphabet == {"c", "+", "g", "é"}

HexDigitSet == {HexDigits[i] : i \in 1..16} \cup {UpperHexDigits[i] : i \in 1..16}

\* Every short form #rgb and #rgba over the lowercase hex digits.
ShortHexBodies == [1..3 -> {HexDigits[i] : i \in 1..16}]
                      \cup [1..4 -> {HexDigits[i] : i \in 1..16}]

InitHex ==
    /\ \E body \in SeqsUpTo(HexAlphabet, MaxHexLen) \cup ShortHexBodies :
           expr = STR.hash \o body
    /\ mapping = [colors |-> <<>>, direction |-> [tag |-> "Direction", val |-> DIR.to_right]]
    /\ is_active = "None"
    /\ dwm = -1
    /\ call = "none"
    /\ result = [tag |-> "None"]

ParseToken ==
    /\ call = "none"
    /\ call' = "parse"
    /\ result' = parse(expr, is_active)
    /\ UNCHANGED <<expr, mapping, is_active, dwm>>

SpecHex == InitHex /\ [][ParseToken]_vars

\* The body of the hex token in expr.
HexBody == Drop(expr, 1)

AllHexDigits(s) == \A i \in 1..Len(s) : s[i] \in HexDigitSet

\* Each character written twice: rgb to rrggbb.
RECURSIVE Doubled(_)
Doubled(s) == IF s = <<>> THEN <<>> ELSE <<Head(s), Head(s)>> \o Doubled(Tail(s))

(***************************************************************************)
(* C9: a token '#' body parses if and only if the body has length 3, 4, 6  *)
(* or 8 and every character of it is a hexadecimal digit; any other body   *)
(* yields InvalidHex.  u8::from_str_radix takes a leading '+', so a six or *)
(* eight character body may hold one in each two-character channel.        *)
(***************************************************************************)
C9_HexAcceptedIffWellFormed ==
    call = "parse"
    => /\ IsOk(result) <=> (Len(HexBody) \in {3, 4, 6, 8} /\ AllHexDigits(HexBody))
       /\ ~IsOk(result) => (result.tag = "Err" /\ result.kind = "InvalidHex")

(***************************************************************************)
(* C10: nibble duplication: for hex digits r, g, b, a the token #rgb       *)
(* parses to the color of #rrggbb and #rgba to the color of #rrggbbaa; the *)
(* 3 and 6 digit forms have alpha 1.0.                                     *)
(***************************************************************************)
C10_NibbleDuplication ==
    (call = "parse" /\ AllHexDigits(HexBody))
    => /\ Len(HexBody) \in {3, 4}
          => /\ IsOk(result)
             /\ result = parse(STR.hash \o Doubled(HexBody), is_active)
       /\ Len(HexBody) \in {3, 6} => (IsOk(result) /\ result.val.a = ROne)

C10_Witness ==
    /\ call = "parse"
    /\ HexBody = <<"8", "0", "f", "a">>
    /\ result = Ok(D2D1_COLOR_F(Rat(136, 255), RZero, ROne, Rat(170, 255)))

(***************************************************************************)
(* The token parser on rgb() and rgba() tokens: parse applied to a call of *)
(* either name with up to MaxComponents components, written with a space   *)
(* after each comma.                                                       *)
(***************************************************************************)
MaxComponents == 4

RgbComponents ==
    {<<"2", "5", "5">>, <<"0">>, <<"3", "0", "0">>, <<"-", "5">>,
     <<"5", "0", "%">>, <<"1", "0", "0", "%">>, <<"0", ".", "5">>,
     <<"n", "a", "n">>, <<"x">>}

InitRgb ==
    /\ \E open \in {STR.rgb_open, STR.rgba_open},
          components \in SeqsUpTo(RgbComponents, MaxComponents) :
           expr = open \o Join(components, <<",", " ">>) \o <<")">>
    /\ mapping = [colors |-> <<>>, direction |-> [tag |-> "Direction", val |-> DIR.to_right]]
    /\ is_active = "None"
    /\ dwm = -1
    /\ call = "none"
    /\ result = [tag |-> "None"]

SpecRgb == InitRgb /\ [][ParseToken]_vars

\* The token in expr is a call of rgb, or of rgba.
IsRgb == starts_with(expr, STR.rgb_open)
IsRgba == starts_with(expr, STR.rgba_open)

\* The components of the call in expr, as written between the commas and
\* trimmed.
RgbArgs ==
    LET open == IF IsRgb THEN STR.rgb_open ELSE STR.rgba_open
        pieces == split(SubSeq(expr, Len(open) + 1, Len(expr) - 1), ",")
    IN  [i \in 1..Len(pieces) |-> trim(pieces[i])]

\* The component count the specification allows for the call in expr.
CountAllowed == (IsRgb /\ Len(RgbArgs) = 3) \/ (IsRgba /\ Len(RgbArgs) \in {3, 4})

(***************************************************************************)
(* C11: an rgb(...) token needs exactly 3 comma-separated components and   *)
(* an rgba(...) token 3 or 4; with any other count, rgb(...) with 4        *)
(* components included, parse returns InvalidRgb.                          *)
(***************************************************************************)
C11_RgbComponentCount ==
    (call = "parse" /\ ~CountAllowed) => result = Err("InvalidRgb", expr)

\* A component is a percentage N% or a bare number N, N a numeral that
\* str::parse::<f32> takes.
IsPercent(c) == ends_with(c, <<"%">>) /\ IsSome(parse_f32(Take(c, Len(c) - 1)))
IsBare(c) == IsSome(parse_f32(c))

\* The number N of a component.
NumberOf(c) == IF IsPercent(c) THEN parse_f32(Take(c, Len(c) - 1)).val ELSE parse_f32(c).val

\* The first three components are all percentages or all bare numbers, and
\* the alpha, when there is one, is either.
SameRepresentation ==
    /\ \/ \A i \in 1..3 : IsPercent(RgbArgs[i])
       \/ \A i \in 1..3 : IsBare(RgbArgs[i])
    /\ Len(RgbArgs) = 4 => (IsPercent(RgbArgs[4]) \/ IsBare(RgbArgs[4]))

(***************************************************************************)
(* C12: for a call with an allowed component count, parse accepts the      *)
(* token exactly when its first three components are all percentages or    *)
(* all bare numbers (and the alpha, if any, is a parsable number of either *)
(* kind); a mix of the two kinds or an unparsable component gives          *)
(* InvalidRgb.                                                             *)
(***************************************************************************)
C12_RgbSameRepresentation ==
    (call = "parse" /\ CountAllowed) =>
        IF SameRepresentation THEN result.tag = "Ok"
        ELSE result = Err("InvalidRgb", expr)

\* rgb(50%, 0, 0), a mix of the two kinds, was rejected.
C12_Witness ==
    /\ call = "parse"
    /\ expr = STR.rgb_open \o <<"5", "0", "%", ",", " ", "0", ",", " ", "0", ")">>
    /\ result = Err("InvalidRgb", expr)

\* The value a color component stands for, and the one an alpha stands for.
ChannelOf(c) ==
    IF IsPercent(c) THEN RDiv(NumberOf(c), RInt(100)) ELSE RDiv(NumberOf(c), RInt(255))
AlphaOf(c) == IF IsPercent(c) THEN RDiv(NumberOf(c), RInt(100)) ELSE NumberOf(c)

\* v brought into [0, 1].
IntoUnit(v) == IF RLt(v, RZero) THEN RZero ELSE IF RLt(ROne, v) THEN ROne ELSE v
InUnit(v) == RLe(RZero, v) /\ RLe(v, ROne)

(***************************************************************************)
(* C13: an accepted rgb()/rgba() token gives, for each color component,    *)
(* N/100 for N% and N/255 for a bare N, for the alpha N/100 for N%, the    *)
(* bare value otherwise and 1.0 when absent, each brought into [0, 1]; no   *)
(* channel of the result lies outside [0, 1].                              *)
(***************************************************************************)
C13_RgbChannelValues ==
    (call = "parse" /\ CountAllowed /\ result.tag = "Ok") =>
        /\ result.val.r = IntoUnit(ChannelOf(RgbArgs[1]))
        /\ result.val.g = IntoUnit(ChannelOf(RgbArgs[2]))
        /\ result.val.b = IntoUnit(ChannelOf(RgbArgs[3]))
        /\ result.val.a = IF Len(RgbArgs) = 4 THEN IntoUnit(AlphaOf(RgbArgs[4])) ELSE ROne
        /\ InUnit(result.val.r) /\ InUnit(result.val.g)
        /\ InUnit(result.val.b) /\ InUnit(result.val.a)

(***************************************************************************)
(* The token parser on the other tokens: parse applied to accent, named    *)
(* colors, words that nothing matches, hex and rgb tokens, and darken()    *)
(* and lighten() calls around them, nested up to MaxDepth deep and written *)
(* well and badly, for every is_active and several accent-query outcomes.  *)
(***************************************************************************)
MaxDepth == 1

RECURSIVE TokensOfDepth(_)
TokensOfDepth(d) ==
    IF d = 0
    THEN {STR.accent, STR.red, STR.white, TOK.tbogus, <<>>, TOK.tf00, TOK.t12345,
          STR.rgb_open \o <<"2", "5", "5", ",", " ", "0", ",", " ", "0", ")">>,
          <<"#", "1", "2", "3", "4", "5", "6", "8", "0">>,
          <<"r", "g", "b", "a", "(", "2", "5", "5", ",", " ", "1", "2", "8", ",", " ", "0", ",", " ", "0", ".", "5", ")">>}
    ELSE LET inner == TokensOfDepth(d - 1)
             tails == {<<",", " ", "1", "0", "%", ")">>, <<",", " ", "0", ")">>,
                       <<",", " ", "x", ")">>, <<")">>, <<",", " ", "1", "0", "%">>}
         IN  inner \cup {open \o i \o tail :
                            open \in {STR.darken_open, STR.lighten_open},
                            i \in inner, tail \in tails}

InitToken ==
    /\ expr \in TokensOfDepth(MaxDepth)
    /\ mapping = [colors |-> <<>>, direction |-> [tag |-> "Direction", val |-> DIR.to_right]]
    /\ is_active \in IsActiveValues
    /\ dwm \in DwmValues \cup {0, 16777215}
    /\ call = "none"
    /\ result = [tag |-> "None"]

SpecToken == InitToken /\ [][ParseToken]_vars

\* The channels of the accent color the query returned in dwm, and the
\* average of the three.
AccentR == Rat((dwm \div 65536) % 256, 255)
AccentG == Rat((dwm \div 256) % 256, 255)
AccentB == Rat(dwm % 256, 255)
AccentAvg == RDiv(RAdd(RAdd(AccentR, AccentG), AccentB), RInt(3))

\* avg / 1.5 + c / 10
Desaturated(c) == RAdd(RDiv(AccentAvg, Rat(3, 2)), RDiv(c, RInt(10)))

(***************************************************************************)
(* C14: for the token accent, a failed accent-color query gives the        *)
(* InvalidAccent error; a query that returns (r, g, b) gives (r, g, b, 1)  *)
(* when is_active is true and, when it is false or unset, each channel c   *)
(* as ((r + g + b) / 3) / 1.5 + c / 10 with alpha 1.                       *)
(***************************************************************************)
C14_AccentColor ==
    (call = "parse" /\ expr = STR.accent) =>
        IF dwm < 0 THEN result.tag = "Err" /\ result.kind = "InvalidAccent"
        ELSE IF is_active = "Some_true"
        THEN result = Ok(D2D1_COLOR_F(AccentR, AccentG, AccentB, ROne))
        ELSE result = Ok(D2D1_COLOR_F(Desaturated(AccentR), Desaturated(AccentG),
                                      Desaturated(AccentB), ROne))

\* The accent color 0x89b4fa with is_active unset gave the desaturated color.
C14_Witness ==
    /\ call = "parse" /\ expr = STR.accent /\ dwm = 9024762 /\ is_active = "None"
    /\ result.tag = "Ok"
    /\ result.val.r = Rat(1397, 2550)

\* The token is one no branch of the token parser matches.
NothingMatches ==
    /\ expr # STR.accent
    /\ ~IsSome(NAMED_COLORS_get(expr))
    /\ \A p \in {STR.hash, STR.rgb_open, STR.rgba_open, STR.darken_open, STR.lighten_open} :
           ~starts_with(expr, p)

(***************************************************************************)
(* C15: a token that is not accent, is not a named color and starts with   *)
(* none of '#', 'rgb(', 'rgba(', 'darken(', 'lighten(' is not an error:    *)
(* parse returns the default color, and that color is opaque black,        *)
(* (0, 0, 0, 1).                                                           *)
(***************************************************************************)
C15_FallbackIsOpaqueBlack ==
    (call = "parse" /\ NothingMatches) =>
        result = Ok(D2D1_COLOR_F(RZero, RZero, RZero, ROne))

\* The token is a darken call, a lighten call.
IsDarken == starts_with(expr, STR.darken_open)
IsLighten == starts_with(expr, STR.lighten_open)

\* The call in expr is malformed, or its color argument does not parse.
CallFails ==
    LET caps == darken_lighten_captures(expr)
    IN  ~IsSome(caps) \/ ~IsOk(parse(caps.val[3], is_active))

(***************************************************************************)
(* C16: a darken(...) token that is malformed or whose inner color does    *)
(* not parse gives InvalidDarken, a lighten(...) token in the same         *)
(* situations InvalidLighten: the kind of the error is that of the token's *)
(* own modifier.                                                           *)
(***************************************************************************)
C16_DarkenLightenErrorKind ==
    (call = "parse" /\ (IsDarken \/ IsLighten) /\ CallFails) =>
        /\ result.tag = "Err"
        /\ result.kind = IF IsDarken THEN "InvalidDarken" ELSE "InvalidLighten"

(***************************************************************************)
(* The direction resolver on its own: GradientCoordinates::try_from.       *)
(***************************************************************************)
\* Direction strings: the eight keywords, strings that are close to one,
\* angles in every unit whose slope the f32 arithmetic gets exactly (0, and
\* the vertical lines at 90 and 270 degrees), and strings that only look
\* like an angle.
DirectionBodies ==
    { <<"t", "o", " ", "r", "i", "g", "h", "t">>,
      <<"t", "o", " ", "l", "e", "f", "t">>,
      <<"t", "o", " ", "t", "o", "p">>,
      <<"t", "o", " ", "b", "o", "t", "t", "o", "m">>,
      <<"t", "o", " ", "t", "o", "p", " ", "r", "i", "g", "h", "t">>,
      <<"t", "o", " ", "t", "o", "p", " ", "l", "e", "f", "t">>,
      <<"t", "o", " ", "b", "o", "t", "t", "o", "m", " ", "r", "i", "g", "h", "t">>,
      <<"t", "o", " ", "b", "o", "t", "t", "o", "m", " ", "l", "e", "f", "t">>,
      <<>>,
      <<"b", "o", "g", "u", "s">>,
      <<"r", "i", "g", "h", "t">>,
      <<"t", "o", "_", "r", "i", "g", "h", "t">>,
      <<"T", "o", " ", "R", "i", "g", "h", "t">>,
      <<"t", "o", " ", "r", "i", "g", "h", "t", " ", "t", "o", "p">>,
      <<"0", "d", "e", "g">>,
      <<"9", "0", "d", "e", "g">>,
      <<"2", "7", "0", "d", "e", "g">>,
      <<"-", "9", "0", "d", "e", "g">>,
      <<"-", "2", "7", "0", "d", "e", "g">>,
      <<"4", "5", "0", "d", "e", "g">>,
      <<"0", "g", "r", "a", "d">>,
      <<"1", "0", "0", "g", "r", "a", "d">>,
      <<"3", "0", "0", "g", "r", "a", "d">>,
      <<"-", "1", "0", "0", "g", "r", "a", "d">>,
      <<"0", "r", "a", "d">>,
      <<"0", "t", "u", "r", "n">>,
      <<"0", ".", "2", "5", "t", "u", "r", "n">>,
      <<"0", ".", "7", "5", "t", "u", "r", "n">>,
      <<"-", "0", ".", "2", "5", "t", "u", "r", "n">>,
      <<"0">>,
      <<"9", "0">>,
      <<"2", "7", "0">>,
      <<"x", "d", "e", "g">>,
      <<"d", "e", "g">>,
      <<"t", "u", "r", "n">>,
      <<"9", "0", " ", "d", "e", "g">>,
      <<"9", "0", "d", "e", "g", "r", "e", "e", "s">>,
      <<"d", "e", "g", "9", "0">>,
      <<"9", "0", "%">>,
      <<"3", "0", "d", "e", "g">>,
      <<"4", "5", "d", "e", "g">>,
      <<"1", "3", "5", "d", "e", "g">>,
      <<"1", "8", "0", "d", "e", "g">>,
      <<"2", "1", "0", "d", "e", "g">>,
      <<"2", "2", "5", "d", "e", "g">>,
      <<"3", "1", "5", "d", "e", "g">>,
      <<"3", "6", "0", "d", "e", "g">>,
      <<"-", "4", "5", "d", "e", "g">>,
      <<"-", "1", "8", "0", "d", "e", "g">>,
      <<"1", "3", "4", "2", "1", "7", "7", "2", "8", "d", "e", "g">>,
      <<"1", "0", "0", "0", "0", "0", "0", "0", "d", "e", "g">>,
      <<"1", "0", "0", "0", "0", "1", "8", "0", "d", "e", "g">>,
      <<"3", "6", "0", "0", "0", "0", "0", "d", "e", "g">>,
      <<"2", "0", "0", "g", "r", "a", "d">>,
      <<"0", ".", "5", "t", "u", "r", "n">>,
      <<"1", "r", "a", "d">>,
      <<"4", "5">>,
      <<"1", "8", "0">>,
      <<"2", "0", "0", "0", "0", "0", "0", "0", "0", "0", "0", "0", "0", "0", "0", "0", "0", "0", "0", "0", "0", "0", "0", "0", "0", "0", "0", "0", "0", "0", "0", "0", "0", "0", "0", "0", "0", "0", "0", "d", "e", "g">>,
      <<"n", "a", "n", "d", "e", "g">>,
      <<"i", "n", "f", "d", "e", "g">>,
      <<"n", "a", "n">> }

\* GradientCoordinates::try_from(&str) with the direction in expr, as it is
\* and with a space before or after it.
InitDirection ==
    /\ \E body \in DirectionBodies, before, after \in {<<>>, <<" ">>} :
           expr = before \o body \o after
    /\ mapping = [colors |-> <<>>, direction |-> [tag |-> "Direction", val |-> DIR.to_right]]
    /\ is_active = "None"
    /\ dwm = -1
    /\ call = "none"
    /\ result = [tag |-> "None"]

TryFrom ==
    /\ call = "none"
    /\ call' = "try_from"
    /\ result' = parse_coordinates(expr)
    /\ UNCHANGED <<expr, mapping, is_active, dwm>>

SpecDirection == InitDirection /\ [][TryFrom]_vars

Keywords ==
    { DIR.to_right, DIR.to_left, DIR.to_top, DIR.to_bottom,
      DIR.to_top_right, DIR.to_top_left, DIR.to_bottom_right, DIR.to_bottom_left }

\* The keyword that points the other way.
Opposite(keyword) ==
    CASE keyword = DIR.to_right -> DIR.to_left
      [] keyword = DIR.to_left -> DIR.to_right
      [] keyword = DIR.to_top -> DIR.to_bottom
      [] keyword = DIR.to_bottom -> DIR.to_top
      [] keyword = DIR.to_top_right -> DIR.to_bottom_left
      [] keyword = DIR.to_bottom_left -> DIR.to_top_right
      [] keyword = DIR.to_top_left -> DIR.to_bottom_right
      [] keyword = DIR.to_bottom_right -> DIR.to_top_left

\* The corners and the edge midpoints of the unit square.
CornersAndMidpoints ==
    ({RZero, RHalf, ROne} \X {RZero, RHalf, ROne}) \ {<<RHalf, RHalf>>}

Resolved == call = "try_from"

\* C17: each of the eight direction keywords resolves to a start/end pair on
\* the corners or edge midpoints of the unit square, start + end = (1, 1)
\* componentwise, the pair is the reverse of the opposite keyword's pair, and
\* "to right" is start [0, 0.5], end [1, 0.5].
C17_KeywordCoordinates ==
    (Resolved /\ expr \in Keywords) =>
        /\ IsOk(result)
        /\ result.val.start \in CornersAndMidpoints
        /\ result.val.end \in CornersAndMidpoints
        /\ RAdd(result.val.start[1], result.val.end[1]) = ROne
        /\ RAdd(result.val.start[2], result.val.end[2]) = ROne
        /\ parse_coordinates(Opposite(expr)) =
               Ok([start |-> result.val.end, end |-> result.val.start])
        /\ expr = DIR.to_right =>
               result.val = [start |-> <<RZero, RHalf>>, end |-> <<ROne, RHalf>>]
        /\ expr = DIR.to_left =>
               result.val = [start |-> <<ROne, RHalf>>, end |-> <<RZero, RHalf>>]

C17_Witness ==
    /\ Resolved
    /\ expr = DIR.to_bottom_left
    /\ result = Ok([start |-> <<ROne, RZero>>, end |-> <<RZero, ROne>>])

\* A string that parse_angle takes: a number, or a number and a unit.
ParsableAngle(s) ==
    \E unit \in {<<>>, DIR.deg, DIR.grad, DIR.rad, DIR.turn} :
        /\ ends_with(s, unit)
        /\ IsSome(parse_f32(Take(s, Len(s) - Len(unit))))

\* C18: a direction string that is neither one of the eight keywords nor a
\* parsable angle makes the resolver return InvalidGradientCoordinates
\* carrying that string, never coordinates.
C18_InvalidDirection ==
    (Resolved /\ expr \notin Keywords /\ ~ParsableAngle(expr)) =>
        result = Err("InvalidGradientCoordinates", expr)

C18_Witness ==
    /\ Resolved
    /\ expr = TOK.tbogus
    /\ result = Err("InvalidGradientCoordinates", TOK.tbogus)

\* C19: 0deg, 90deg, 180deg and 270deg resolve to the start/end pairs of
\* "to top", "to right", "to bottom" and "to left".
C19_AngleConvention ==
    Resolved =>
        /\ expr = <<"0", "d", "e", "g">> => result = parse_coordinates(DIR.to_top)
        /\ expr = <<"9", "0", "d", "e", "g">> => result = parse_coordinates(DIR.to_right)
        /\ expr = <<"1", "8", "0", "d", "e", "g">> => result = parse_coordinates(DIR.to_bottom)
        /\ expr = <<"2", "7", "0", "d", "e", "g">> => result = parse_coordinates(DIR.to_left)

(***************************************************************************)
(* The HSL transform at a percentage of zero: darken(c, 0), lighten(c, 0). *)
(***************************************************************************)
\* Colors c: short hex colors #rgb over ten of the digits, two colors with
\* an alpha channel, and colors so dark that 2.0 * l - 1.0 rounds to -1.0.
HslColors ==
    {STR.hash \o body :
        body \in [1..3 -> {"0", "1", "2", "5", "7", "8", "a", "c", "e", "f"}]}
    \cup { <<"#", "1", "2", "3", "4", "5", "6", "8", "0">>,
           <<"r", "g", "b", "a", "(", "2", "5", "5", ",", " ", "1", "2", "8", ",", " ", "0", ",", " ", "0", ".", "5", ")">>,
           <<"r", "g", "b", "(", "0", ".", "0", "0", "0", "0", "0", "0", "1", "%", ",", " ", "0", "%", ",", " ", "0", "%", ")">>,
           <<"r", "g", "b", "(", "0", ".", "0", "0", "0", "0", "0", "1", "%", ",", " ", "0", ".", "0", "0", "0", "0", "0", "0", "1", "%", ",", " ", "0", "%", ")">>,
           <<"r", "g", "b", "(", "0", "%", ",", " ", "0", ".", "0", "0", "0", "0", "0", "0", "1", "%", ",", " ", "0", ".", "0", "0", "0", "0", "0", "0", "2", "%", ")">> }

\* parse on darken(c, 0) and lighten(c, 0).
InitHsl ==
    /\ \E open \in {STR.darken_open, STR.lighten_open}, color \in HslColors :
           expr = open \o color \o <<",", " ", "0", ")">>
    /\ mapping = [colors |-> <<>>, direction |-> [tag |-> "Direction", val |-> DIR.to_right]]
    /\ is_active = "None"
    /\ dwm = -1
    /\ call = "none"
    /\ result = [tag |-> "None"]

SpecHsl == InitHsl /\ [][ParseToken]_vars

\* The color c of the call in expr.
ColorArgument == parse(darken_lighten_captures(expr).val[3], is_active).val

\* Two channels are the same f32 number (a NaN is equal to nothing).
SameChannel(x, y) == x # FNaN /\ y # FNaN /\ ToF32(x) = ToF32(y)

\* C20: darken(c, 0) and lighten(c, 0) return c itself, channel by channel,
\* for every color c with channels in [0, 1].
C20_ZeroPercentIsIdentity ==
    call = "parse" =>
        /\ IsOk(result)
        /\ SameChannel(result.val.r, ColorArgument.r)
        /\ SameChannel(result.val.g, ColorArgument.g)
        /\ SameChannel(result.val.b, ColorArgument.b)
        /\ SameChannel(result.val.a, ColorArgument.a)

(***************************************************************************)
(* C21: darken and lighten leave the alpha channel unchanged: the alpha of *)
(* the result is the alpha of the color c of the call, for every           *)
(* percentage.                                                             *)
(***************************************************************************)
C21_AlphaUnchanged ==
    (call = "parse" /\ (IsDarken \/ IsLighten) /\ IsOk(result)) =>
        result.val.a = ColorArgument.a

C21_Witness ==
    /\ call = "parse"
    /\ expr = STR.lighten_open \o <<"r", "g", "b", "a", "(", "2", "5", "5", ",", " ", "1", "2", "8", ",", " ", "0", ",", " ", "0", ".", "5", ")", ",", " ", "1", "0", "%", ")">>
    /\ IsOk(result)
    /\ result.val.a = RHalf
    /\ result.val.r # ColorArgument.r

\* The text t is a run of consecutive characters of s.
IsSubstring(t, s) ==
    \E i \in 1..(Len(s) + 1) : i + Len(t) - 1 <= Len(s) /\ SubSeq(s, i, i + Len(t) - 1) = t

(***************************************************************************)
(* C22: every error of the token parser and of the direction resolver      *)
(* carries a substring of the input, the token or direction text that      *)
(* failed, whatever the kind of the error.                                 *)
(***************************************************************************)
C22_ErrorsCarryTheInput ==
    (call \in {"parse", "try_from"} /\ result.tag = "Err") =>
        IsSubstring(result.text, expr)

\* The slope m that parse_coordinates computes for the angle of a string
\* (NaN for an angle that is not finite or whose product with PI is not).
SlopeOfText(s) ==
    IF not_finite(parse_angle(s).val) THEN FNaN
    ELSE slope_of(parse_angle(s).val, abs_mod_360(parse_angle(s).val),
                  FMul(parse_angle(s).val, <<-1, 13176795, -22>>))

\* calculate_point takes one of its two clamping arms for x: y = m * x + b
\* is outside [0, 1].
Clamped(line, x) ==
    FLt(plug_in_x(line, x), FZero) \/ FLt(FOfInt(1), plug_in_x(line, x))

\* C23: resolving an angle never fails and never divides by a zero slope:
\* whenever try_from is given an angle, the result is Ok, and for each of the
\* two sample points for which calculate_point takes a clamping arm (which
\* divides by m) the slope m is not zero; at 90 and 270 degrees m is
\* f32::MAX with the sign of the angle.
C23_NoDivisionByZeroSlope ==
    (call = "try_from" /\ IsSome(parse_angle(expr))) =>
        /\ IsOk(result)
        /\ SlopeOfText(expr) # FNaN =>
              \A i \in {1, 2} :
                  Clamped(line_of(SlopeOfText(expr)),
                          samples_of(abs_mod_360(parse_angle(expr).val))[i])
                      => SlopeOfText(expr) # FZero
        /\ (/\ ~not_finite(parse_angle(expr).val)
            /\ abs_mod_360(parse_angle(expr).val) \in {FOfInt(90), FOfInt(270)}) =>
              SlopeOfText(expr) = FMul(signum(parse_angle(expr).val), <<1, 16777215, 104>>)

\* 90deg is resolved through both clamping arms with the slope f32::MAX.
C23_Witness ==
    /\ call = "try_from"
    /\ expr = <<"9", "0", "d", "e", "g">>
    /\ SlopeOfText(expr) = <<1, 16777215, 104>>
    /\ Clamped(line_of(SlopeOfText(expr)), FOfInt(1))
    /\ Clamped(line_of(SlopeOfText(expr)), FZero)
    /\ result = Ok([start |-> <<RHalf, ROne>>, end |-> <<RHalf, RZero>>])

\* A coordinate that is a number of [0, 1].
InUnitInterval(c) ==
    IF Len(c) = 2 THEN c[2] > 0 /\ 0 <= c[1] /\ c[1] <= c[2]
    ELSE ~FLt(c, FZero) /\ ~FLt(FOfInt(1), c)

\* A point of the unit square that is on its boundary.
OnBoundary(p) ==
    /\ InUnitInterval(p[1])
    /\ InUnitInterval(p[2])
    /\ (p[1] \in {RZero, ROne} \/ p[2] \in {RZero, ROne})

\* C24: for every finite angle, both components of both points that the
\* direction resolver returns are in [0, 1], and each point is on the
\* boundary of the unit square.
C24_PointsOnTheUnitSquare ==
    (call = "try_from" /\ IsSome(parse_angle(expr))
                       /\ ~not_finite(parse_angle(expr).val)) =>
        /\ IsOk(result)
        /\ OnBoundary(result.val.start)
        /\ OnBoundary(result.val.end)

\* C25: every string that is_valid_direction accepts is resolved by
\* GradientCoordinates::try_from; and when a piece of the text after the
\* last color token of an expression is a valid direction, parse_color does
\* not fail with InvalidGradientCoordinates.
C25_ValidDirectionResolves ==
    /\ (call = "try_from" /\ is_valid_direction(expr)) => IsOk(result)
    /\ (call = "parse_color" /\ Len(TokensOfExpr) > 1 /\ ~NoDirectionFollows) =>
           ~(result.tag = "Err" /\ result.kind = "InvalidGradientCoordinates")

\* -100grad is a valid direction and is resolved: -90 degrees, from
\* [0.5, 0] to [0.5, 1].
C25_Witness ==
    /\ call = "try_from"
    /\ expr = <<"-", "1", "0", "0", "g", "r", "a", "d">>
    /\ is_valid_direction(expr)
    /\ result = Ok([start |-> <<RHalf, RZero>>, end |-> <<RHalf, ROne>>])

\* The expression is gradient(c1, ..., cN, d) for the colors c1..cN (N >= 2)
\* and the direction string d of the mapping.
SameTokensAndDirection ==
    /\ Len(mapping.colors) >= 2
    /\ mapping.direction.tag = "Direction"
    /\ expr = Wrapped(Join(mapping.colors, <<",", " ">>)
                      \o <<",", " ">> \o mapping.direction.val)

\* The same Gradient (stop colors, positions and direction), or an error in
\* both.
SameOutcome(a, b) ==
    \/ a.tag = "Gradient" /\ b = a
    \/ a.tag = "Err" /\ b.tag = "Err"

\* C26: for the same color tokens c1..cN (N >= 2) and the same direction
\* string d, parse_color("gradient(c1, ..., cN, d)") and
\* parse_color_mapping({colors: [c1..cN], direction: d}) give the same
\* outcome: the same stops with the same direction, or an error in both.
C26_ExpressionAndMappingAgree ==
    (call = "parse_color" /\ SameTokensAndDirection) =>
        SameOutcome(result, parse_color_mapping(mapping, is_active))

\* An angle that is a whole number of degrees below 2^30.
IsWholeDegrees(x) ==
    /\ Len(x) = 3
    /\ \/ x[2] = 0
       \/ /\ x[3] >= -23
          /\ x[3] <= 6
          /\ (x[3] >= 0 \/ x[2] % Pow2(-x[3]) = 0)

WholeDegrees(x) ==
    IF x[3] >= 0 THEN x[1] * x[2] * Pow2(x[3]) ELSE x[1] * (x[2] \div Pow2(-x[3]))

\* The angle of t is the angle of s plus 180 degrees, both whole numbers.
HalfTurnLater(s, t) ==
    /\ IsSome(parse_angle(s))
    /\ IsSome(parse_angle(t))
    /\ IsWholeDegrees(parse_angle(s).val)
    /\ IsWholeDegrees(parse_angle(t).val)
    /\ WholeDegrees(parse_angle(t).val) = WholeDegrees(parse_angle(s).val) + 180

\* C27: for every angle, resolving the angle plus 180 degrees gives the
\* result of resolving the angle with start and end swapped.
C27_HalfTurnSwaps ==
    (call = "try_from" /\ IsSome(parse_angle(expr))) =>
        \A body \in DirectionBodies :
            HalfTurnLater(expr, body) =>
                parse_coordinates(body) =
                    Ok([start |-> result.val.end, end |-> result.val.start])

====
